---- MODULE Spec2Model ----
(***************************************************************************)
(* The iterative decode loop of the CTF decoder agent:                     *)
(*   src/src/state.py   DecoderState (session record, loop detection)      *)
(*   src/src/agent.py   DecoderAgent (selection, fallback, decision, loop) *)
(*   src/src/analysis.py identify_likely_encoding, validator chain         *)
(*   src/src/decoders.py try_all_decoders                                  *)
(*                                                                         *)
(*   src/src/decoders.py, analysis.py  the codecs and the characterizer    *)
(*                                                                         *)
(* The loop runs in one of two settings.  With library = "any", texts are  *)
(* opaque values, and what the characterizer reports about a text and what *)
(* each codec returns on it are inputs of the step that asks for them, so  *)
(* that the loop is checked for every behaviour of the codecs.  With       *)
(* library = "source", texts are sequences of code points and the codecs   *)
(* and the characterizer are those of decoders.py and analysis.py.         *)
(* Confidences are in hundredths (0.95 is 95), printable ratios in         *)
(* percent, entropies in tenths of a bit.                                  *)
(***************************************************************************)
EXTENDS Integers, Sequences, FiniteSets, TLC

\* ------------------------------------------------------------------ bounds
NumTexts == 3
MaxIter == 2
MaxLen == 4
\* record_decode calls made on a DecoderState used directly
MaxCalls == 3
\* characters of a text handed to a codec called directly
MaxChars == 2
\* characters of an encoded text handed to try_all_decoders
MaxTryLen == 16

Texts == 1..NumTexts
\* value of a local that holds no text yet
NoText == NumTexts + 1

\* --------------------------------------------------------------- constants
MIN_CONFIDENCE == 30
FALLBACK_CONFIDENCE == 70

CONFIDENCE_BASE64_CHARSET == 85
CONFIDENCE_BASE64_WITH_PADDING == 95
CONFIDENCE_BASE64_LENGTH_MATCH == 60
CONFIDENCE_HEX_CHARSET == 90
CONFIDENCE_HEX_EVEN_LENGTH == 95
CONFIDENCE_ROT13_ALPHABETIC == 70
CONFIDENCE_URL_PERCENT_ENCODING == 90

CONFIDENCE_FLAG_DETECTED == 99
CONFIDENCE_URL_DETECTED == 85
CONFIDENCE_HASH_DETECTED == 80
CONFIDENCE_NATURAL_LANGUAGE == 90
CONFIDENCE_STILL_ENCODED == 60
CONFIDENCE_IMPROVED_READABILITY == 50
CONFIDENCE_AMBIGUOUS == 45
CONFIDENCE_NO_CHANGE == 0

PRINTABLE_RATIO_HIGH == 95
PRINTABLE_RATIO_LOW == 80
ENTROPY_HIGH_THRESHOLD == 55
ENTROPY_LOW_THRESHOLD == 45

\* registration order of the codecs (agent.py decoders dict, decoders.py list)
DecoderOrder == <<"base64", "hex", "rot13", "url">>
Decoders == {DecoderOrder[i] : i \in 1..Len(DecoderOrder)}
None == "None"

VARIABLES
    state,          \* the DecoderState of this invocation
    pc,             \* position of decode / decode_iteration
    decoder_name, confidence, success, decoded_text,  \* locals of decode_iteration
    validation,     \* the validator's verdict in the iteration that ran last
    last_exit,      \* which return of decode_iteration ended the last iteration
    result,         \* the dictionary decode returns
    ret,            \* a function called on its own: its name and what it returned
    library,        \* "any": codecs as inputs; "source": the codecs of the source
    verbose,        \* DecoderAgent.verbose
    previous        \* how an earlier decode of the same input ended, if there was one

\* what one decode leaves alone
run_vars == <<library, verbose, previous>>

vars == <<state, pc, decoder_name, confidence, success, decoded_text,
          validation, last_exit, result, ret, library, verbose, previous>>

\* ---------------------------------------------------------- DecoderState
\* dataclass defaults and __post_init__
NewState(text, max_iter) ==
    [current_text |-> text,
     original_text |-> text,
     encoding_chain |-> <<>>,
     text_history |-> <<text>>,
     iteration_count |-> 0,
     max_iterations |-> max_iter,
     is_complete |-> FALSE,
     completion_reason |-> "",
     confidence_scores |-> <<>>,
     attempted_decodings |-> {}]

\* record_decode without the append to confidence_scores
RecordDecodeNoScore(s, encoding_type, res, conf) ==
    LET h == Append(s.text_history, res)
    IN [s EXCEPT
          !.encoding_chain = Append(@, encoding_type),
          !.text_history = h,
          !.current_text = res,
          !.iteration_count = @ + 1,
          !.attempted_decodings =
              IF Len(h) > 1 THEN @ \cup {<<h[Len(h) - 1], encoding_type>>} ELSE @]

\* record_decode marking (current_text, encoding_type) as tried
RecordDecodeFromCurrent(s, encoding_type, res, conf) ==
    [s EXCEPT
        !.encoding_chain = Append(@, encoding_type),
        !.text_history = Append(@, res),
        !.current_text = res,
        !.confidence_scores = Append(@, conf),
        !.iteration_count = @ + 1,
        !.attempted_decodings = @ \cup {<<s.current_text, encoding_type>>}]

\* record_decode without self.current_text = result
RecordDecodeKeepsCurrent(s, encoding_type, res, conf) ==
    LET h == Append(s.text_history, res)
    IN [s EXCEPT
          !.encoding_chain = Append(@, encoding_type),
          !.text_history = h,
          !.confidence_scores = Append(@, conf),
          !.iteration_count = @ + 1,
          !.attempted_decodings = @ \cup {<<h[Len(h) - 1], encoding_type>>}]

RecordDecode(s, encoding_type, res, conf) ==
    LET h == Append(s.text_history, res)
    IN [s EXCEPT
          !.encoding_chain = Append(@, encoding_type),
          !.text_history = h,
          !.current_text = res,
          !.confidence_scores = Append(@, conf),
          !.iteration_count = @ + 1,
          !.attempted_decodings =
              IF Len(h) > 1 THEN @ \cup {<<h[Len(h) - 1], encoding_type>>} ELSE @]

\* is_loop_detected without the exact-repeat test
IsLoopDetectedNoExactRepeat(s) ==
    LET h == s.text_history
        n == Len(h)
    IN IF n > 1 /\ h[n - 1] = s.current_text THEN TRUE
       ELSE IF n >= 4 /\ h[n] = h[n - 2] /\ h[n - 1] = h[n - 3] THEN TRUE
       ELSE FALSE

\* is_loop_detected that looks for a repeat only in a history of four entries
IsLoopDetectedNeedsFour(s) ==
    LET h == s.text_history
        n == Len(h)
    IN IF n >= 4 /\ \E i \in 1..(n - 1) : h[i] = s.current_text THEN TRUE
       ELSE IF n > 1 /\ h[n - 1] = s.current_text THEN TRUE
       ELSE IF n >= 4 /\ h[n] = h[n - 2] /\ h[n - 1] = h[n - 3] THEN TRUE
       ELSE FALSE

IsLoopDetected(s) ==
    LET h == s.text_history
        n == Len(h)
    IN IF \E i \in 1..(n - 1) : h[i] = s.current_text THEN TRUE
       ELSE IF n > 1 /\ h[n - 1] = s.current_text THEN TRUE
       ELSE IF n >= 4 /\ h[n] = h[n - 2] /\ h[n - 1] = h[n - 3] THEN TRUE
       ELSE FALSE

\* should_continue with > for >= in the budget test
ShouldContinueOffByOne(s) ==
    IF s.is_complete THEN [ret |-> FALSE, state |-> s]
    ELSE IF s.iteration_count > s.max_iterations
         THEN [ret |-> FALSE,
               state |-> [s EXCEPT !.completion_reason = "max_iterations_reached"]]
    ELSE IF IsLoopDetected(s)
         THEN [ret |-> FALSE,
               state |-> [s EXCEPT !.completion_reason = "loop_detected"]]
    ELSE [ret |-> TRUE, state |-> s]

\* should_continue that stops on the budget without giving the reason
ShouldContinueNoReason(s) ==
    IF s.is_complete THEN [ret |-> FALSE, state |-> s]
    ELSE IF s.iteration_count >= s.max_iterations
         THEN [ret |-> FALSE, state |-> s]
    ELSE IF IsLoopDetected(s)
         THEN [ret |-> FALSE,
               state |-> [s EXCEPT !.completion_reason = "loop_detected"]]
    ELSE [ret |-> TRUE, state |-> s]

\* should_continue whose budget test sets the reason and falls through
ShouldContinueFallThrough(s) ==
    LET t == IF s.iteration_count >= s.max_iterations
             THEN [s EXCEPT !.completion_reason = "max_iterations_reached"]
             ELSE s
    IN IF s.is_complete THEN [ret |-> FALSE, state |-> s]
       ELSE IF IsLoopDetected(t)
            THEN [ret |-> FALSE,
                  state |-> [t EXCEPT !.completion_reason = "loop_detected"]]
       ELSE [ret |-> TRUE, state |-> t]

\* should_continue with the loop test ahead of the budget test
ShouldContinueLoopFirst(s) ==
    IF s.is_complete THEN [ret |-> FALSE, state |-> s]
    ELSE IF IsLoopDetected(s)
         THEN [ret |-> FALSE,
               state |-> [s EXCEPT !.completion_reason = "loop_detected"]]
    ELSE IF s.iteration_count >= s.max_iterations
         THEN [ret |-> FALSE,
               state |-> [s EXCEPT !.completion_reason = "max_iterations_reached"]]
    ELSE [ret |-> TRUE, state |-> s]

\* the value returned and the state left behind
ShouldContinue(s) ==
    IF s.is_complete THEN [ret |-> FALSE, state |-> s]
    ELSE IF s.iteration_count >= s.max_iterations
         THEN [ret |-> FALSE,
               state |-> [s EXCEPT !.completion_reason = "max_iterations_reached"]]
    ELSE IF IsLoopDetected(s)
         THEN [ret |-> FALSE,
               state |-> [s EXCEPT !.completion_reason = "loop_detected"]]
    ELSE [ret |-> TRUE, state |-> s]

\* text[:50]; an opaque text stands for its own first characters
Snippet(text) ==
    IF library = "source" /\ Len(text) > 50 THEN SubSeq(text, 1, 50) ELSE text

\* The orders in which iterating over a set can yield its elements: the order
\* of a Python set of tuples of strings follows their hashes, which differ
\* from one interpreter process to the next.
SetOrders(S) ==
    {o \in [1..Cardinality(S) -> S] :
        \A i, j \in 1..Cardinality(S) : i # j => o[i] # o[j]}

\* to_dict, with order the order in which attempted_decodings is iterated
ToDict(s, order) ==
    [original_text |-> s.original_text,
     final_text |-> s.current_text,
     encoding_chain |-> s.encoding_chain,
     iterations |-> s.iteration_count,
     complete |-> s.is_complete,
     reason |-> s.completion_reason,
     history |-> s.text_history,
     confidence_scores |-> s.confidence_scores,
     attempted_decodings |->
         [i \in 1..Len(order) |->
             [text_snippet |-> Snippet(order[i][1]), decoder |-> order[i][2]]]]

\* ------------------------------------------------------- characterization
Charsets == {"empty", "hex", "base64", "alphabetic", "printable", "binary"}

\* The fields of a TextAnalysis that identify_likely_encoding reads.  A text is
\* "empty" exactly when its length is 0, and neither '%' nor a trailing '='
\* belongs to the hex digits; '%' does not belong to the Base64 alphabet.
ScoringAnalyses ==
    {a \in [charset : Charsets, padding : BOOLEAN, length : 0..MaxLen,
            has_percent : BOOLEAN] :
        /\ (a.charset = "empty") = (a.length = 0)
        /\ a.padding => a.charset \notin {"empty", "hex"}
        /\ a.has_percent => a.charset \notin {"empty", "hex", "base64"}}

HashTypes == {"MD5", "SHA1", "SHA256"}
\* one value on each side of, and on, the thresholds the validators compare with
PrintableRatios == {79, 80, 95, 100}
Entropies == {44, 45, 56}

\* The fields of a TextAnalysis that the validators read.  A marker or a URL
\* is made of printable characters, a hash of nothing else.
AnalysesOver(ratios, entropies) ==
    {a \in [contains_flag : BOOLEAN, contains_url : BOOLEAN,
            hash_type : HashTypes \cup {None},
            printable_ratio : ratios, entropy : entropies] :
        a.hash_type # None => a.printable_ratio = 100 /\ ~a.contains_flag
                                 /\ ~a.contains_url}

ValidationAnalyses == AnalysesOver(PrintableRatios, Entropies)

\* TextAnalysis.from_text(""): no character, so ratio and entropy are 0.0
EmptyAnalysis ==
    [contains_flag |-> FALSE, contains_url |-> FALSE, hash_type |-> None,
     printable_ratio |-> 0, entropy |-> 0]

\* ------------------------------------------------------ EncodingClassifier
\* identify_likely_encoding giving rot13 the confidence of url
IdentifyLikelyEncodingRot13AsUrl(a) ==
    [d \in Decoders |->
        CASE d = "base64" ->
                 IF a.charset = "base64"
                 THEN IF a.padding THEN CONFIDENCE_BASE64_WITH_PADDING
                      ELSE CONFIDENCE_BASE64_CHARSET
                 ELSE IF a.length % 4 = 0 /\ a.charset \in {"printable", "base64"}
                      THEN CONFIDENCE_BASE64_LENGTH_MATCH
                      ELSE 0
          [] d = "hex" ->
                 IF a.charset = "hex"
                 THEN IF a.length % 2 = 0 THEN CONFIDENCE_HEX_EVEN_LENGTH
                      ELSE CONFIDENCE_HEX_CHARSET
                 ELSE 0
          [] d = "rot13" ->
                 IF a.charset = "alphabetic" THEN CONFIDENCE_URL_PERCENT_ENCODING ELSE 0
          [] d = "url" ->
                 IF a.has_percent THEN CONFIDENCE_URL_PERCENT_ENCODING ELSE 0]

\* identify_likely_encoding without the step up for padding
IdentifyLikelyEncodingNoPadding(a) ==
    [d \in Decoders |->
        CASE d = "base64" ->
                 IF a.charset = "base64" THEN CONFIDENCE_BASE64_CHARSET
                 ELSE IF a.length % 4 = 0 /\ a.charset \in {"printable", "base64"}
                      THEN CONFIDENCE_BASE64_LENGTH_MATCH
                      ELSE 0
          [] d = "hex" ->
                 IF a.charset = "hex"
                 THEN IF a.length % 2 = 0 THEN CONFIDENCE_HEX_EVEN_LENGTH
                      ELSE CONFIDENCE_HEX_CHARSET
                 ELSE 0
          [] d = "rot13" ->
                 IF a.charset = "alphabetic" THEN CONFIDENCE_ROT13_ALPHABETIC ELSE 0
          [] d = "url" ->
                 IF a.has_percent THEN CONFIDENCE_URL_PERCENT_ENCODING ELSE 0]

IdentifyLikelyEncoding(a) ==
    [d \in Decoders |->
        CASE d = "base64" ->
                 IF a.charset = "base64"
                 THEN IF a.padding THEN CONFIDENCE_BASE64_WITH_PADDING
                      ELSE CONFIDENCE_BASE64_CHARSET
                 ELSE IF a.length % 4 = 0 /\ a.charset \in {"printable", "base64"}
                      THEN CONFIDENCE_BASE64_LENGTH_MATCH
                      ELSE 0
          [] d = "hex" ->
                 IF a.charset = "hex"
                 THEN IF a.length % 2 = 0 THEN CONFIDENCE_HEX_EVEN_LENGTH
                      ELSE CONFIDENCE_HEX_CHARSET
                 ELSE 0
          [] d = "rot13" ->
                 IF a.charset = "alphabetic" THEN CONFIDENCE_ROT13_ALPHABETIC ELSE 0
          [] d = "url" ->
                 IF a.has_percent THEN CONFIDENCE_URL_PERCENT_ENCODING ELSE 0]

\* a sort that puts codecs of equal confidence in the reverse of their order
\* in the table
SortedDecodersTiesReversed(scores) ==
    LET n == Len(DecoderOrder)
        Before(i, j) ==
            \/ scores[DecoderOrder[i]] > scores[DecoderOrder[j]]
            \/ scores[DecoderOrder[i]] = scores[DecoderOrder[j]] /\ i > j
        Rank(i) == 1 + Cardinality({j \in 1..n : Before(j, i)})
    IN [k \in 1..n |-> DecoderOrder[CHOOSE i \in 1..n : Rank(i) = k]]

\* sorted(items, key = confidence, reverse = True): a stable sort, so codecs
\* of equal confidence keep their order in the table
SortedDecoders(scores) ==
    LET n == Len(DecoderOrder)
        Before(i, j) ==
            \/ scores[DecoderOrder[i]] > scores[DecoderOrder[j]]
            \/ scores[DecoderOrder[i]] = scores[DecoderOrder[j]] /\ i < j
        Rank(i) == 1 + Cardinality({j \in 1..n : Before(j, i)})
    IN [k \in 1..n |-> DecoderOrder[CHOOSE i \in 1..n : Rank(i) = k]]

SelectDecoder(scores) ==
    LET sorted == SortedDecoders(scores)
        ok == {k \in 1..Len(sorted) : scores[sorted[k]] > MIN_CONFIDENCE}
    IN IF ok = {} THEN [name |-> None, confidence |-> 0]
       ELSE LET k == CHOOSE x \in ok : \A y \in ok : x <= y
            IN [name |-> sorted[k], confidence |-> scores[sorted[k]]]

\* --------------------------------------------------------- DecoderRegistry
\* Texts are only ever compared for equality, so a text is named by the order
\* of its first appearance: the input is text 1, and a codec returns a text of
\* the history or the first text not in it yet.
InputTexts == {t \in Texts : \A u \in Texts : t <= u}
KnownOrNext(h) == {t \in Texts : \E i \in 1..Len(h) : t <= h[i] + 1}

\* What a codec does on one text: it returns a text or raises DecoderError.
Outcomes(h) ==
    [kind : {"ok"}, text : KnownOrNext(h)] \cup [kind : {"DecoderError"}, text : {NoText}]

ApplyDecoder(name, text, out) ==
    IF name \notin Decoders THEN [success |-> FALSE, text |-> text]
    ELSE IF out.kind = "ok" THEN [success |-> TRUE, text |-> out.text]
    ELSE [success |-> FALSE, text |-> text]

\* outs[d] is what codec d does on text
\* try_all_decoders without the test result != encoded_text
TryAllDecodersKeepsUnchanged(text, outs) ==
    LET Kept(i) == outs[DecoderOrder[i]].kind = "ok"
        F[i \in 0..Len(DecoderOrder)] ==
            IF i = 0 THEN <<>>
            ELSE IF Kept(i)
                 THEN Append(F[i - 1], <<DecoderOrder[i], outs[DecoderOrder[i]].text>>)
                 ELSE F[i - 1]
    IN F[Len(DecoderOrder)]

TryAllDecoders(text, outs) ==
    LET Kept(i) == outs[DecoderOrder[i]].kind = "ok" /\ outs[DecoderOrder[i]].text # text
        F[i \in 0..Len(DecoderOrder)] ==
            IF i = 0 THEN <<>>
            ELSE IF Kept(i)
                 THEN Append(F[i - 1], <<DecoderOrder[i], outs[DecoderOrder[i]].text>>)
                 ELSE F[i - 1]
    IN F[Len(DecoderOrder)]

\* _try_alternative_decoders taking results[-1]
TryAlternativeDecodersLast(text, outs) ==
    LET results == TryAllDecoders(text, outs)
    IN IF results # <<>>
       THEN [found |-> TRUE, name |-> results[Len(results)][1],
             text |-> results[Len(results)][2], confidence |-> FALLBACK_CONFIDENCE]
       ELSE [found |-> FALSE, name |-> None, text |-> NoText, confidence |-> 0]

TryAlternativeDecoders(text, outs) ==
    LET results == TryAllDecoders(text, outs)
    IN IF results # <<>>
       THEN [found |-> TRUE, name |-> results[1][1], text |-> results[1][2],
             confidence |-> FALLBACK_CONFIDENCE]
       ELSE [found |-> FALSE, name |-> None, text |-> NoText, confidence |-> 0]

\* ---------------------------------------------------------- ValidatorChain
NoVerdict == [status |-> None, reason |-> "", confidence |-> 0]

ValidatorNoChange(original, decoded, a) ==
    IF original = decoded
    THEN [status |-> "FAILED", reason |-> "No change after decoding",
          confidence |-> CONFIDENCE_NO_CHANGE]
    ELSE NoVerdict

ValidatorFlag(original, decoded, a) ==
    IF a.contains_flag
    THEN [status |-> "COMPLETE", reason |-> "Flag format detected",
          confidence |-> CONFIDENCE_FLAG_DETECTED]
    ELSE NoVerdict

ValidatorUrl(original, decoded, a) ==
    IF a.contains_url
    THEN [status |-> "COMPLETE", reason |-> "URL detected",
          confidence |-> CONFIDENCE_URL_DETECTED]
    ELSE NoVerdict

HashReason(hash_type) ==
    CASE hash_type = "MD5" -> "MD5 hash detected"
      [] hash_type = "SHA1" -> "SHA1 hash detected"
      [] hash_type = "SHA256" -> "SHA256 hash detected"

ValidatorHash(original, decoded, a) ==
    IF a.hash_type # None
    THEN [status |-> "COMPLETE", reason |-> HashReason(a.hash_type),
          confidence |-> CONFIDENCE_HASH_DETECTED]
    ELSE NoVerdict

\* the natural language validator with ENTROPY_NATURAL_LANGUAGE (4.1) as
\* its entropy limit
ValidatorNaturalLanguageTypical(original, decoded, a) ==
    IF a.printable_ratio > PRINTABLE_RATIO_HIGH /\ a.entropy < 41
    THEN [status |-> "COMPLETE",
          reason |-> "Natural language detected (high printable ratio, low entropy)",
          confidence |-> CONFIDENCE_NATURAL_LANGUAGE]
    ELSE NoVerdict

ValidatorNaturalLanguage(original, decoded, a) ==
    IF a.printable_ratio > PRINTABLE_RATIO_HIGH /\ a.entropy < ENTROPY_LOW_THRESHOLD
    THEN [status |-> "COMPLETE",
          reason |-> "Natural language detected (high printable ratio, low entropy)",
          confidence |-> CONFIDENCE_NATURAL_LANGUAGE]
    ELSE NoVerdict

ValidatorStillEncoded(original, decoded, a) ==
    IF a.printable_ratio < PRINTABLE_RATIO_LOW \/ a.entropy > ENTROPY_HIGH_THRESHOLD
    THEN [status |-> "PARTIAL", reason |-> "Still appears encoded",
          confidence |-> CONFIDENCE_STILL_ENCODED]
    ELSE NoVerdict

ValidatorImprovedReadability(original, decoded, a) ==
    IF a.printable_ratio > PRINTABLE_RATIO_LOW
    THEN [status |-> "PARTIAL", reason |-> "Improved readability but still ambiguous",
          confidence |-> CONFIDENCE_IMPROVED_READABILITY]
    ELSE NoVerdict

ValidatorDefault(original, decoded, a) ==
    [status |-> "PARTIAL", reason |-> "Ambiguous result",
     confidence |-> CONFIDENCE_AMBIGUOUS]

\* the no-change validator registered after the COMPLETE validators
RegistryNoChangeAfterComplete ==
    <<"flag", "url", "hash", "natural_language", "no_change", "still_encoded",
      "improved_readability", "default">>

\* the URL validator registered ahead of the flag validator
RegistryUrlBeforeFlag ==
    <<"no_change", "url", "flag", "hash", "natural_language", "still_encoded",
      "improved_readability", "default">>

\* the validators in registration order
VALIDATION_REGISTRY ==
    <<"no_change", "flag", "url", "hash", "natural_language", "still_encoded",
      "improved_readability", "default">>

Validator(name, original, decoded, a) ==
    CASE name = "no_change" -> ValidatorNoChange(original, decoded, a)
      [] name = "flag" -> ValidatorFlag(original, decoded, a)
      [] name = "url" -> ValidatorUrl(original, decoded, a)
      [] name = "hash" -> ValidatorHash(original, decoded, a)
      [] name = "natural_language" -> ValidatorNaturalLanguage(original, decoded, a)
      [] name = "still_encoded" -> ValidatorStillEncoded(original, decoded, a)
      [] name = "improved_readability" ->
             ValidatorImprovedReadability(original, decoded, a)
      [] name = "default" -> ValidatorDefault(original, decoded, a)

\* a is the characterization of decoded; the first verdict wins
ValidateDecodedResult(original, decoded, a) ==
    LET hits == {i \in 1..Len(VALIDATION_REGISTRY) :
                    Validator(VALIDATION_REGISTRY[i], original, decoded, a) # NoVerdict}
    IN IF hits = {} THEN ValidatorDefault(original, decoded, a)
       ELSE Validator(VALIDATION_REGISTRY[CHOOSE i \in hits : \A j \in hits : i <= j],
                      original, decoded, a)

\* ================================================== texts, character by character
\* A text is the sequence of the code points of its characters.
Ascii ==
    " !\"#$%&'()*+,-./0123456789:;<=>?@ABCDEFGHIJKLMNOPQRSTUVWXYZ[\\]^_?abcdefghijklmnopqrstuvwxyz{|}~"

\* ord(c) of a one-character string
Ord(c) == 31 + CHOOSE n \in 1..Len(Ascii) : SubSeq(Ascii, n, n) = c

\* a string literal of the source as a text
Str(s) == [i \in 1..Len(s) |-> Ord(SubSeq(s, i, i))]

Chars(s) == {Ord(SubSeq(s, i, i)) : i \in 1..Len(s)}

Count(text, S) == Cardinality({i \in 1..Len(text) : text[i] \in S})

AsciiLetters == Chars("abcdefghijklmnopqrstuvwxyzABCDEFGHIJKLMNOPQRSTUVWXYZ")
AsciiDigits == Chars("0123456789")
HEX_CHARS == Chars("0123456789abcdefABCDEF")
BASE64_CHARS == AsciiLetters \cup AsciiDigits \cup Chars("+/=")
\* string.printable: digits, letters, punctuation and " \t\n\r\x0b\x0c"
StringPrintable == 32..126 \cup 9..13
\* the characters str.strip and \s take for white space, among those below 256
Whitespace == 9..13 \cup 28..32 \cup {133, 160}

\* identify_charset with the Base64 test ahead of the hex test
identify_charsetBase64First(text) ==
    IF Len(text) = 0 THEN "empty"
    ELSE IF \A i \in 1..Len(text) : text[i] \in BASE64_CHARS THEN "base64"
    ELSE IF \A i \in 1..Len(text) : text[i] \in HEX_CHARS \cup Chars(" ") THEN "hex"
    ELSE IF \A i \in 1..Len(text) : text[i] \in StringPrintable
         THEN IF 10 * Count(text, AsciiLetters) > 7 * Len(text)
              THEN "alphabetic" ELSE "printable"
    ELSE "binary"

identify_charset(text) ==
    IF Len(text) = 0 THEN "empty"
    ELSE IF \A i \in 1..Len(text) : text[i] \in HEX_CHARS \cup Chars(" ") THEN "hex"
    ELSE IF \A i \in 1..Len(text) : text[i] \in BASE64_CHARS THEN "base64"
    ELSE IF \A i \in 1..Len(text) : text[i] \in StringPrintable
         THEN IF 10 * Count(text, AsciiLetters) > 7 * Len(text)
              THEN "alphabetic" ELSE "printable"
    ELSE "binary"

\* round(log2(k) * 10^6) for k = 1..64
Log2Micro ==
    <<0, 1000000, 1584963, 2000000, 2321928, 2584963, 2807355, 3000000,
      3169925, 3321928, 3459432, 3584963, 3700440, 3807355, 3906891, 4000000,
      4087463, 4169925, 4247928, 4321928, 4392317, 4459432, 4523562, 4584963,
      4643856, 4700440, 4754888, 4807355, 4857981, 4906891, 4954196, 5000000,
      5044394, 5087463, 5129283, 5169925, 5209453, 5247928, 5285402, 5321928,
      5357552, 5392317, 5426265, 5459432, 5491853, 5523562, 5554589, 5584963,
      5614710, 5643856, 5672425, 5700440, 5727920, 5754888, 5781360, 5807355,
      5832890, 5857981, 5882643, 5906891, 5930737, 5954196, 5977280, 6000000>>

\* Shannon entropy in millionths of a bit:
\* -sum (c/n) log2 (c/n) = log2 n - (sum c log2 c) / n over the counts c
EntropyMicro(text) ==
    LET n == Len(text)
        \* each position adds log2 of the count of its character
        Sum[i \in 0..n] ==
            IF i = 0 THEN 0 ELSE Sum[i - 1] + Log2Micro[Count(text, {text[i]})]
    IN IF n = 0 THEN 0 ELSE Log2Micro[n] - (Sum[n] \div n)

\* x / unit in whole units, rounded down below the threshold and up above it:
\* a comparison with the threshold comes out as it does on x / unit itself
Rounded(x, unit, threshold) ==
    IF x % unit = 0 \/ x < threshold * unit THEN x \div unit ELSE x \div unit + 1

\* in tenths of a bit
calculate_entropy(text) == Rounded(EntropyMicro(text), 100000, ENTROPY_HIGH_THRESHOLD)

\* in percent
calculate_printable_ratio(text) ==
    IF Len(text) = 0 THEN 0
    ELSE Rounded(100 * Count(text, StringPrintable), Len(text), PRINTABLE_RATIO_LOW)

rstrip(text) ==
    LET keep == {i \in 1..Len(text) : text[i] \notin Whitespace}
    IN IF keep = {} THEN <<>>
       ELSE SubSeq(text, 1, CHOOSE i \in keep : \A j \in keep : j <= i)

strip(text) ==
    LET keep == {i \in 1..Len(text) : text[i] \notin Whitespace}
    IN IF keep = {} THEN <<>>
       ELSE SubSeq(text, CHOOSE i \in keep : \A j \in keep : i <= j,
                   CHOOSE i \in keep : \A j \in keep : j <= i)

has_padding(text) ==
    LET t == rstrip(text) IN Len(t) > 0 /\ t[Len(t)] = Ord("=")

\* re.IGNORECASE on the letters of the patterns
Fold(c) ==
    IF c \in 65..90 THEN c + 32
    ELSE IF c = 383 THEN Ord("s")
    ELSE IF c \in {304, 305} THEN Ord("i")
    ELSE c

\* the pattern's literal part matches text from position i on
MatchAt(text, i, word) ==
    /\ i + Len(word) - 1 <= Len(text)
    /\ \A k \in 1..Len(word) : Fold(text[i + k - 1]) = Fold(Ord(SubSeq(word, k, k)))

URL_PATTERN == <<"http://", "https://">>

\* URL_PATTERN.search: the scheme and at least one character that is not white space
contains_url(text) ==
    \E p \in 1..Len(URL_PATTERN), i \in 1..Len(text) :
        /\ MatchAt(text, i, URL_PATTERN[p])
        /\ i + Len(URL_PATTERN[p]) <= Len(text)
        /\ text[i + Len(URL_PATTERN[p])] \notin Whitespace

FLAG_PATTERNS == <<"flag{", "HTB{", "CTF{", "picoCTF{", "FLAG{", "FLG{">>

\* a pattern's search: the word, '{', at least one character other than '}', '}'
contains_flag(text) ==
    \E p \in 1..Len(FLAG_PATTERNS), i \in 1..Len(text) :
        LET j == i + Len(FLAG_PATTERNS[p])
        IN /\ MatchAt(text, i, FLAG_PATTERNS[p])
           /\ j <= Len(text)
           /\ text[j] # Ord("}")
           /\ \E e \in (j + 1)..Len(text) : text[e] = Ord("}")

MD5_LENGTH == 32
SHA1_LENGTH == 40
SHA256_LENGTH == 64

looks_like_hash(text) ==
    LET t == strip(text)
    IN IF \E i \in 1..Len(t) : t[i] \notin HEX_CHARS THEN None
       ELSE IF Len(t) = MD5_LENGTH THEN "MD5"
       ELSE IF Len(t) = SHA1_LENGTH THEN "SHA1"
       ELSE IF Len(t) = SHA256_LENGTH THEN "SHA256"
       ELSE None

\* TextAnalysis.from_text: the fields the classifier reads and those the
\* validators read
analyze_encoding_characteristics(text) ==
    [charset |-> identify_charset(text), padding |-> has_padding(text),
     length |-> Len(text), has_percent |-> \E i \in 1..Len(text) : text[i] = Ord("%"),
     contains_flag |-> contains_flag(text), contains_url |-> contains_url(text),
     hash_type |-> looks_like_hash(text),
     printable_ratio |-> calculate_printable_ratio(text),
     entropy |-> calculate_entropy(text)]

\* ------------------------------------------------------------------ bytes
\* bytes.decode('utf-8'): how many continuation bytes a lead byte takes (-1
\* for a byte that cannot lead) and the values its first one may have
Utf8Continuations(b) ==
    IF b < 128 THEN 0
    ELSE IF b \in 194..223 THEN 1
    ELSE IF b \in 224..239 THEN 2
    ELSE IF b \in 240..244 THEN 3
    ELSE -1

Utf8Second(b) ==
    IF b = 224 THEN 160..191
    ELSE IF b = 237 THEN 128..159
    ELSE IF b = 240 THEN 144..191
    ELSE IF b = 244 THEN 128..143
    ELSE 128..191

\* errors = 'strict' fails on an ill-formed sequence, errors = 'replace'
\* puts U+FFFD for each maximal ill-formed part
Utf8Decode(bytes, replace) ==
    LET n == Len(bytes)
        \* continuation bytes that follow the lead byte at i, at most k of them
        Good(i, k) ==
            LET ok(j) == /\ i + j <= n
                         /\ bytes[i + j] \in (IF j = 1 THEN Utf8Second(bytes[i])
                                              ELSE 128..191)
                G[j \in 0..k] == IF j = 0 THEN 0
                                 ELSE IF G[j - 1] = j - 1 /\ ok(j) THEN j ELSE G[j - 1]
            IN G[k]
        CodePoint(i, k) ==
            CASE k = 0 -> bytes[i]
              [] k = 1 -> (bytes[i] - 192) * 64 + (bytes[i + 1] - 128)
              [] k = 2 -> (bytes[i] - 224) * 4096 + (bytes[i + 1] - 128) * 64
                          + (bytes[i + 2] - 128)
              [] k = 3 -> (bytes[i] - 240) * 262144 + (bytes[i + 1] - 128) * 4096
                          + (bytes[i + 2] - 128) * 64 + (bytes[i + 3] - 128)
        D[i \in 1..(n + 1)] ==
            IF i = n + 1 THEN [ok |-> TRUE, text |-> <<>>]
            ELSE LET k == Utf8Continuations(bytes[i])
                     m == IF k < 0 THEN 0 ELSE Good(i, k)
                     rest == D[i + m + 1]
                 IN IF k >= 0 /\ m = k
                    THEN [ok |-> rest.ok, text |-> <<CodePoint(i, k)>> \o rest.text]
                    ELSE [ok |-> replace /\ rest.ok, text |-> <<65533>> \o rest.text]
    IN D[1]

HexDigits == "0123456789abcdef"

HexValue(c) ==
    IF c \in 48..57 THEN c - 48 ELSE IF c \in 97..102 THEN c - 87 ELSE c - 55

\* bytes.hex()
hex(bytes) ==
    [i \in 1..(2 * Len(bytes)) |->
        LET b == bytes[(i + 1) \div 2]
            d == IF i % 2 = 1 THEN b \div 16 ELSE b % 16
        IN Ord(SubSeq(HexDigits, d + 1, d + 1))]

\* bytes.fromhex on an even number of hex digits
fromhex(text) ==
    [i \in 1..(Len(text) \div 2) |->
        16 * HexValue(text[2 * i - 1]) + HexValue(text[2 * i])]

Base64Alphabet == "ABCDEFGHIJKLMNOPQRSTUVWXYZabcdefghijklmnopqrstuvwxyz0123456789+/"

\* base64.b64encode
b64encode(bytes) ==
    LET n == Len(bytes)
        Byte(i) == IF i <= n THEN bytes[i] ELSE 0
        Sextet(g, k) ==
            LET b1 == Byte(3 * g - 2)
                b2 == Byte(3 * g - 1)
                b3 == Byte(3 * g)
            IN CASE k = 1 -> b1 \div 4
                 [] k = 2 -> (b1 % 4) * 16 + b2 \div 16
                 [] k = 3 -> (b2 % 16) * 4 + b3 \div 64
                 [] k = 4 -> b3 % 64
        Symbol(g, k) ==
            IF 3 * (g - 1) + k > n + 1 THEN Ord("=")
            ELSE Ord(SubSeq(Base64Alphabet, Sextet(g, k) + 1, Sextet(g, k) + 1))
    IN [i \in 1..(4 * ((n + 2) \div 3)) |-> Symbol((i + 3) \div 4, ((i - 1) % 4) + 1)]

Base64Value(c) ==
    IF c \in 65..90 THEN c - 65
    ELSE IF c \in 97..122 THEN c - 71
    ELSE IF c \in 48..57 THEN c + 4
    ELSE IF c = 43 THEN 62
    ELSE IF c = 47 THEN 63
    ELSE 64

\* binascii.a2b_base64 as base64.b64decode calls it (not strict): characters
\* outside the alphabet are skipped, complete padding ends the data
a2b_base64(text) ==
    LET n == Len(text)
        Step(st, c) ==
            IF st.done THEN st
            ELSE IF c = Ord("=")
                 THEN IF st.quad_pos >= 2 /\ st.quad_pos + st.pads + 1 >= 4
                      THEN [st EXCEPT !.done = TRUE]
                      ELSE IF st.quad_pos >= 2 THEN [st EXCEPT !.pads = @ + 1] ELSE st
            ELSE IF Base64Value(c) = 64 THEN st
            ELSE LET v == Base64Value(c)
                 IN CASE st.quad_pos = 0 ->
                            [st EXCEPT !.quad_pos = 1, !.leftchar = v, !.pads = 0]
                      [] st.quad_pos = 1 ->
                            [st EXCEPT !.quad_pos = 2, !.leftchar = v % 16, !.pads = 0,
                                       !.out = Append(@, st.leftchar * 4 + v \div 16)]
                      [] st.quad_pos = 2 ->
                            [st EXCEPT !.quad_pos = 3, !.leftchar = v % 4, !.pads = 0,
                                       !.out = Append(@, st.leftchar * 16 + v \div 4)]
                      [] st.quad_pos = 3 ->
                            [st EXCEPT !.quad_pos = 0, !.leftchar = 0, !.pads = 0,
                                       !.out = Append(@, st.leftchar * 64 + v)]
        S[i \in 0..n] ==
            IF i = 0
            THEN [quad_pos |-> 0, leftchar |-> 0, pads |-> 0, out |-> <<>>, done |-> FALSE]
            ELSE Step(S[i - 1], text[i])
    IN IF ~S[n].done /\ S[n].quad_pos # 0
       THEN [kind |-> "DecoderError", bytes |-> <<>>]
       ELSE [kind |-> "ok", bytes |-> S[n].out]

\* --------------------------------------------------------------- decoders
DecoderError == [kind |-> "DecoderError", text |-> <<>>]
Decoded(text) == [kind |-> "ok", text |-> text]

\* decode_base64 that gives the decoded bytes as hex digits in every case
decode_base64HexOnly(encoded_text) ==
    IF \E i \in 1..Len(encoded_text) : encoded_text[i] >= 128 THEN DecoderError
    ELSE LET decoded == a2b_base64(encoded_text)
         IN IF decoded.kind # "ok" THEN DecoderError
            ELSE Decoded(hex(decoded.bytes))

decode_base64(encoded_text) ==
    IF \E i \in 1..Len(encoded_text) : encoded_text[i] >= 128 THEN DecoderError
    ELSE LET decoded == a2b_base64(encoded_text)
             utf8 == Utf8Decode(decoded.bytes, FALSE)
         IN IF decoded.kind # "ok" THEN DecoderError
            ELSE IF utf8.ok THEN Decoded(utf8.text)
            ELSE Decoded(hex(decoded.bytes))

\* decode_hex whose digit test knows the lower-case digits only
decode_hexLowerOnly(encoded_text) ==
    LET cleaned == SelectSeq(encoded_text, LAMBDA c : c \notin {32, 10, 9})
        decoded == fromhex(cleaned)
        utf8 == Utf8Decode(decoded, FALSE)
    IN IF \E i \in 1..Len(cleaned) : cleaned[i] \notin Chars(HexDigits) THEN DecoderError
       ELSE IF Len(cleaned) % 2 # 0 THEN DecoderError
       ELSE IF utf8.ok THEN Decoded(utf8.text)
       ELSE Decoded(b64encode(decoded))

decode_hex(encoded_text) ==
    LET cleaned == SelectSeq(encoded_text, LAMBDA c : c \notin {32, 10, 9})
        decoded == fromhex(cleaned)
        utf8 == Utf8Decode(decoded, FALSE)
    IN IF \E i \in 1..Len(cleaned) : cleaned[i] \notin HEX_CHARS THEN DecoderError
       ELSE IF Len(cleaned) % 2 # 0 THEN DecoderError
       ELSE IF utf8.ok THEN Decoded(utf8.text)
       ELSE Decoded(b64encode(decoded))

\* decode_rot13 with the upper-case branch counting from 'a'
decode_rot13UpperToLower(encoded_text) ==
    Decoded([i \in 1..Len(encoded_text) |->
                LET c == encoded_text[i]
                IN IF c \in 97..122 THEN ((c - 97 + 13) % 26) + 97
                   ELSE IF c \in 65..90 THEN ((c - 65 + 13) % 26) + 97
                   ELSE c])

decode_rot13(encoded_text) ==
    Decoded([i \in 1..Len(encoded_text) |->
                LET c == encoded_text[i]
                IN IF c \in 97..122 THEN ((c - 97 + 13) % 26) + 97
                   ELSE IF c \in 65..90 THEN ((c - 65 + 13) % 26) + 65
                   ELSE c])

\* urllib.parse.unquote_to_bytes on a run of ASCII characters
unquote_to_bytes(run) ==
    LET n == Len(run)
        B[i \in 1..(n + 1)] ==
            IF i = n + 1 THEN <<>>
            ELSE IF /\ run[i] = Ord("%")
                    /\ i + 2 <= n
                    /\ run[i + 1] \in HEX_CHARS
                    /\ run[i + 2] \in HEX_CHARS
                 THEN <<16 * HexValue(run[i + 1]) + HexValue(run[i + 2])>> \o B[i + 3]
                 ELSE <<run[i]>> \o B[i + 1]
    IN B[1]

\* urllib.parse.unquote: the escapes of each run of ASCII characters become
\* bytes, the bytes are read as UTF-8 with errors = 'replace'
unquote(string) ==
    LET n == Len(string)
        \* the last position of the ASCII run that starts at i
        RunEnd(i) == CHOOSE j \in i..n :
                        /\ \A k \in i..j : string[k] < 128
                        /\ j = n \/ string[j + 1] >= 128
        U[i \in 1..(n + 1)] ==
            IF i = n + 1 THEN <<>>
            ELSE IF string[i] >= 128 THEN <<string[i]>> \o U[i + 1]
            ELSE Utf8Decode(unquote_to_bytes(SubSeq(string, i, RunEnd(i))), TRUE).text
                 \o U[RunEnd(i) + 1]
    IN U[1]

decode_url(encoded_text) ==
    IF \A i \in 1..Len(encoded_text) : encoded_text[i] # Ord("%") THEN DecoderError
    ELSE IF unquote(encoded_text) = encoded_text THEN DecoderError
    ELSE Decoded(unquote(encoded_text))

\* DECODER_REGISTRY[name](text)
Decode(name, text) ==
    CASE name = "base64" -> decode_base64(text)
      [] name = "hex" -> decode_hex(text)
      [] name = "rot13" -> decode_rot13(text)
      [] name = "url" -> decode_url(text)

\* ------------------------------------------------------------ DecoderAgent
\* Step 5 with the loop test ahead of the COMPLETE test
DecideLoopFirst(s, verdict, decoded) ==
    IF IsLoopDetected(s)
    THEN [state |-> [s EXCEPT !.completion_reason = "loop_detected"],
          ret |-> FALSE, exit |-> "loop"]
    ELSE IF verdict.status = "COMPLETE"
    THEN [state |-> [s EXCEPT !.is_complete = TRUE,
                              !.completion_reason = verdict.reason],
          ret |-> FALSE, exit |-> "complete"]
    ELSE IF verdict.status = "FAILED"
    THEN [state |-> [s EXCEPT !.completion_reason = "no_progress"],
          ret |-> FALSE, exit |-> "failed"]
    ELSE [state |-> [s EXCEPT !.current_text = decoded],
          ret |-> TRUE, exit |-> "continue"]

\* Step 5 without the loop test of lines 197-201
DecideNoLoopTest(s, verdict, decoded) ==
    IF verdict.status = "COMPLETE"
    THEN [state |-> [s EXCEPT !.is_complete = TRUE,
                              !.completion_reason = verdict.reason],
          ret |-> FALSE, exit |-> "complete"]
    ELSE IF verdict.status = "FAILED"
    THEN [state |-> [s EXCEPT !.completion_reason = "no_progress"],
          ret |-> FALSE, exit |-> "failed"]
    ELSE [state |-> [s EXCEPT !.current_text = decoded],
          ret |-> TRUE, exit |-> "continue"]

\* Step 5 of decode_iteration, on the state record_decode left: the state
\* after the decision and the value decode_iteration returns
Decide(s, verdict, decoded) ==
    IF verdict.status = "COMPLETE"
    THEN [state |-> [s EXCEPT !.is_complete = TRUE,
                              !.completion_reason = verdict.reason],
          ret |-> FALSE, exit |-> "complete"]
    ELSE IF verdict.status = "FAILED"
    THEN [state |-> [s EXCEPT !.completion_reason = "no_progress"],
          ret |-> FALSE, exit |-> "failed"]
    ELSE IF IsLoopDetected(s)
    THEN [state |-> [s EXCEPT !.completion_reason = "loop_detected"],
          ret |-> FALSE, exit |-> "loop"]
    ELSE [state |-> [s EXCEPT !.current_text = decoded],
          ret |-> TRUE, exit |-> "continue"]

\* the test without "not success or"
NeedsFallbackUnchangedOnly(ok, decoded, current) == ok /\ decoded = current

\* the test without "or decoded_text == state.current_text"
NeedsFallbackFailureOnly(ok, decoded, current) == ~ok

\* decode_iteration, line 158: if not success or decoded_text == current_text
NeedsFallback(ok, decoded, current) == ~ok \/ decoded = current

\* a give-up that records the text as decoded to itself
ReturnWithoutDecodeRecorded(s) == RecordDecode(s, None, s.current_text, 0)

\* decode_iteration, lines 150-152 and 166-168: log and return False; no
\* field of the state is assigned
ReturnWithoutDecode(s) == s

\* the loop without "if not should_continue: break"
AfterIterationNoBreak(should_continue) == "should_continue"

\* decode, lines 232-235: where the loop goes when decode_iteration returns
AfterIteration(should_continue) ==
    IF should_continue THEN "should_continue" ELSE "to_dict"

\* "except DecoderError" for "except Exception"
ExceptionHandlerDecoderErrorOnly(kind) ==
    IF kind = "DecoderError" THEN "to_dict" ELSE "raised"

\* decode, lines 237-241: where an exception raised inside the loop goes
ExceptionHandler(kind) ==
    IF kind \in {"Exception", "DecoderError"} THEN "to_dict" ELSE "raised"

\* an except clause that starts over from a fresh session
OnExceptionFreshState(s, e) ==
    [NewState(s.original_text, s.max_iterations) EXCEPT
        !.completion_reason = "error: " \o e]

\* decode, line 241: state.completion_reason = f"error: {str(e)}"
OnException(s, e) == [s EXCEPT !.completion_reason = "error: " \o e]

\* success taken to mean that something was decoded
DecodeResultSuccessIfDecoded(s, order) ==
    ToDict(s, order) @@ [success |-> s.iteration_count > 0]

\* results = state.to_dict(); results["success"] = state.is_complete
DecodeResult(s, order) == ToDict(s, order) @@ [success |-> s.is_complete]

\* nothing returned yet
NoResult == [success |-> FALSE]

\* no function called on its own
NoCall == [fn |-> None]

\* no earlier decode
NoPrevious == [pc |-> None]

\* analyze_encoding_characteristics(text), as far as the classifier reads it
ScoringOf(text) ==
    IF library = "any" THEN ScoringAnalyses
    ELSE {analyze_encoding_characteristics(text)}

\* analyze_encoding_characteristics(text), as far as the validators read it
ValidationOf(text) ==
    IF library = "any" THEN ValidationAnalyses
    ELSE {analyze_encoding_characteristics(text)}

\* what the codec called name does on text; h is the history so far
OutcomesOf(name, text, h) ==
    IF library = "any" THEN Outcomes(h) ELSE {Decode(name, text)}

ClearLocals ==
    /\ decoder_name' = None
    /\ confidence' = 0
    /\ success' = FALSE
    /\ decoded_text' = NoText

\* decode(encoded_text) on an agent built with max_iterations

Init ==
    /\ \E text \in InputTexts, max_iter \in 0..MaxIter :
           state = NewState(text, max_iter)
    /\ pc = "should_continue"
    /\ decoder_name = None
    /\ confidence = 0
    /\ success = FALSE
    /\ decoded_text = NoText
    /\ validation = NoVerdict
    /\ last_exit = "none"
    /\ result = NoResult
    /\ ret = NoCall
    /\ library = "any"
    /\ verbose = FALSE      \* the default: nothing is written
    /\ previous = NoPrevious

\* while state.should_continue():
LoopTest ==
    /\ pc = "should_continue"
    /\ LET r == ShouldContinue(state)
       IN /\ state' = r.state
          /\ pc' = IF r.ret THEN "analyze" ELSE "to_dict"
          /\ validation' = IF r.ret THEN NoVerdict ELSE validation
    /\ UNCHANGED <<decoder_name, confidence, success, decoded_text, last_exit, result,
                   ret, run_vars>>

\* decode_iteration, steps 1 and 2
Analyze ==
    /\ pc = "analyze"
    /\ \E a \in ScoringOf(state.current_text) :
         LET sel == SelectDecoder(IdentifyLikelyEncoding(a))
         IN IF sel.name = None
            THEN /\ pc' = AfterIteration(FALSE)
                 /\ state' = ReturnWithoutDecode(state)
                 /\ last_exit' = "no_decoder"
                 /\ ClearLocals
            ELSE /\ pc' = "apply"
                 /\ decoder_name' = sel.name
                 /\ confidence' = sel.confidence
                 /\ UNCHANGED <<state, success, decoded_text, last_exit>>
    /\ UNCHANGED <<validation, result, ret, run_vars>>

\* decode_iteration, step 3: the selected decoder
Apply ==
    /\ pc = "apply"
    /\ \E out \in OutcomesOf(decoder_name, state.current_text, state.text_history) :
         LET r == ApplyDecoder(decoder_name, state.current_text, out)
         IN /\ success' = r.success
            /\ decoded_text' = r.text
            /\ pc' = IF NeedsFallback(r.success, r.text, state.current_text)
                     THEN "fallback" ELSE "validate"
    /\ UNCHANGED <<state, decoder_name, confidence, validation, last_exit, result, ret, run_vars>>

\* what the selected decoder did on this text, it does again inside try_all
SameAsSelected(outs) ==
    outs[decoder_name] =
        IF success THEN [kind |-> "ok", text |-> decoded_text]
        ELSE [kind |-> "DecoderError", text |-> NoText]

\* what every codec of the table does on text
AllOutcomesOf(text, h) ==
    IF library = "any" THEN {outs \in [Decoders -> Outcomes(h)] : SameAsSelected(outs)}
    ELSE {[d \in Decoders |-> Decode(d, text)]}

\* decode_iteration, step 3: the alternatives
Fallback ==
    /\ pc = "fallback"
    /\ \E outs \in AllOutcomesOf(state.current_text, state.text_history) :
         LET alt == TryAlternativeDecoders(state.current_text, outs)
         IN IF alt.found
            THEN /\ decoder_name' = alt.name
                 /\ decoded_text' = alt.text
                 /\ confidence' = alt.confidence
                 /\ success' = TRUE
                 /\ pc' = "validate"
                 /\ UNCHANGED <<state, last_exit>>
            ELSE /\ pc' = AfterIteration(FALSE)
                 /\ state' = ReturnWithoutDecode(state)
                 /\ last_exit' = "all_failed"
                 /\ ClearLocals
    /\ UNCHANGED <<validation, result, ret, run_vars>>

\* steps 4 and 5 with record_decode given validation["confidence"]
ValidateRecordsVerdict ==
    /\ pc = "validate"
    /\ \E a \in ValidationOf(decoded_text) :
         LET v == ValidateDecodedResult(state.current_text, decoded_text, a)
             recorded == RecordDecode(state, decoder_name, decoded_text, v.confidence)
             d == Decide(recorded, v, decoded_text)
         IN /\ validation' = v
            /\ state' = d.state
            /\ pc' = AfterIteration(d.ret)
            /\ last_exit' = d.exit
    /\ ClearLocals
    /\ UNCHANGED <<result, ret, run_vars>>

\* decode_iteration, steps 4 and 5
Validate ==
    /\ pc = "validate"
    /\ \E a \in ValidationOf(decoded_text) :
         LET v == ValidateDecodedResult(state.current_text, decoded_text, a)
             recorded == RecordDecode(state, decoder_name, decoded_text, confidence)
             d == Decide(recorded, v, decoded_text)
         IN /\ validation' = v
            /\ state' = d.state
            /\ pc' = AfterIteration(d.ret)
            /\ last_exit' = d.exit
    /\ ClearLocals
    /\ UNCHANGED <<result, ret, run_vars>>

\* an exception other than DecoderError raised by a step of the iteration
\* before it records anything
UnexpectedError ==
    /\ pc \in {"analyze", "apply", "fallback", "validate"}
    /\ pc' = ExceptionHandler("Exception")
    /\ state' = OnException(state, "unexpected")
    /\ last_exit' = "raised"
    /\ ClearLocals
    /\ UNCHANGED <<validation, result, ret, run_vars>>

\* An earlier decode in this process has fixed the order in which a set with
\* the same elements is iterated.
SameProcess(order) ==
    IF previous = NoPrevious THEN TRUE
    ELSE IF previous.pc # "done" THEN TRUE
    ELSE IF previous.state.attempted_decodings # state.attempted_decodings THEN TRUE
    ELSE ToDict(state, order).attempted_decodings = previous.result.attempted_decodings

\* decode, lines 244-250
Return ==
    /\ pc = "to_dict"
    /\ \E order \in SetOrders(state.attempted_decodings) :
           /\ SameProcess(order)
           /\ result' = DecodeResult(state, order)
    /\ pc' = "done"
    /\ UNCHANGED <<state, decoder_name, confidence, success, decoded_text, validation,
                   last_exit, ret, run_vars>>

Next ==
    \/ LoopTest
    \/ Analyze
    \/ Apply
    \/ Fallback
    \/ Validate
    \/ UnexpectedError
    \/ Return

Spec == Init /\ [][Next]_vars

FairSpec == Spec /\ WF_vars(Next)

\* ------------------------------------- decode on texts made of characters
\* str.encode(): UTF-8
encode(text) ==
    LET Low(x) == 128 + (x % 64)
        Bytes(c) ==
            IF c < 128 THEN <<c>>
            ELSE IF c < 2048 THEN <<192 + (c \div 64), Low(c)>>
            ELSE IF c < 65536 THEN <<224 + (c \div 4096), Low(c \div 64), Low(c)>>
            ELSE <<240 + (c \div 262144), Low(c \div 4096), Low(c \div 64), Low(c)>>
        E[i \in 0..Len(text)] == IF i = 0 THEN <<>> ELSE E[i - 1] \o Bytes(text[i])
    IN E[Len(text)]

\* base64.b64encode(original.encode()).decode()
Base64(text) == b64encode(encode(text))

\* original.encode().hex()
Hex(text) == hex(encode(text))

\* texts that hold a marker, at each offset within a group of three bytes
MarkerTexts ==
    {Str(before) \o Str(marker) :
        before \in {"", "x", "xx "},
        marker \in {"flag{abc}", "CTF{secret}", "HTB{s3cr3t}", "picoCTF{x} yy", "Flg{1}"}}

PlainTexts ==
    {Str("Hello, World!"), Str("Hi"), Str("Hello"), Str("hello"), Str("test123"),
     Str("hello world"), Str("!!!invalid!!!"), Str("ZZZZZ"), Str("abc"), Str("abcd"),
     Str("48 65"), Str("%41%42"), Str("abcdefghijklmnopqrstuvwxyz!"), Str(""),
     <<233>>, Str("%zz"), Str("%zzzz")}

\* the texts decode is called on: plain, under one encoding, under two
\* texts of hex digits only: all 22 of them once, the shape of an MD5, a word
HexTexts ==
    {Str("0123456789abcdefABCDEF"), Str("d41d8cd98f00b204e9800998ecf8427e"),
     Str("cafe")}

SourceInputs ==
    PlainTexts \cup MarkerTexts
    \cup {Base64(t) : t \in HexTexts} \cup {Hex(t) : t \in HexTexts}
    \cup {Base64(t) : t \in PlainTexts \cup MarkerTexts}
    \cup {Hex(t) : t \in PlainTexts \cup MarkerTexts}
    \cup {decode_rot13(t).text : t \in PlainTexts \cup MarkerTexts}
    \cup {Base64(Hex(t)) : t \in MarkerTexts}
    \cup {Hex(Base64(t)) : t \in MarkerTexts}

\* decode(encoded_text) with the codecs of the source, on a quiet or a verbose agent
ScenarioInit ==
    /\ \E text \in SourceInputs, max_iter \in 0..MaxIter :
           state = NewState(text, max_iter)
    /\ pc = "should_continue"
    /\ decoder_name = None
    /\ confidence = 0
    /\ success = FALSE
    /\ decoded_text = NoText
    /\ validation = NoVerdict
    /\ last_exit = "none"
    /\ result = NoResult
    /\ ret = NoCall
    /\ library = "source"
    /\ verbose \in BOOLEAN
    /\ previous = NoPrevious

\* every message is written
ScenarioNext ==
    \/ LoopTest
    \/ Analyze
    \/ Apply
    \/ Fallback
    \/ Validate
    \/ Return

ScenarioSpec == ScenarioInit /\ [][ScenarioNext]_vars

\* print raises while _log or decode writes a message: stdout cannot encode a
\* character of it, or is closed
PrintRaises ==
    /\ verbose
    /\ \/ \* lines 132-178 and 97-170: in an iteration, before record_decode
          /\ pc \in {"analyze", "apply", "fallback", "validate"}
          /\ pc' = ExceptionHandler("Exception")
          /\ state' = OnException(state, "print")
          /\ last_exit' = "raised"
       \/ \* lines 184-204: in an iteration, after record_decode
          /\ pc = "validate"
          /\ pc' = ExceptionHandler("Exception")
          /\ state' = OnException(RecordDecode(state, decoder_name, decoded_text,
                                               confidence), "print")
          /\ last_exit' = "raised"
       \/ \* lines 218-219 and 248: outside the try statement
          /\ pc = "to_dict" \/ (pc = "should_continue" /\ state.iteration_count = 0)
          /\ pc' = "raised"
          /\ UNCHANGED <<state, last_exit>>
    /\ ClearLocals
    /\ UNCHANGED <<validation, result, ret, run_vars>>

\* decode of the same text with the same max_iterations, in the same process,
\* on an agent that differs in verbose only
DecodeAgain ==
    /\ pc \in {"done", "raised"}
    /\ previous = NoPrevious
    /\ previous' = [pc |-> pc, state |-> state, result |-> result]
    /\ verbose' = ~verbose
    /\ state' = NewState(state.original_text, state.max_iterations)
    /\ pc' = "should_continue"
    /\ validation' = NoVerdict
    /\ last_exit' = "none"
    /\ result' = NoResult
    /\ ClearLocals
    /\ UNCHANGED <<ret, library>>

TwoRunNext ==
    \/ ScenarioNext
    \/ PrintRaises
    \/ DecodeAgain

TwoRunSpec == ScenarioInit /\ [][TwoRunNext]_vars

\* ------------------------------------------- DecoderState, called directly
\* The methods of a DecoderState called on their own, as tests.py does: any
\* sequence of record_decode calls and of assignments to current_text (the
\* field is assigned from outside at agent.py:205), with is_loop_detected
\* asked in between.
loop_vars == <<pc, decoder_name, confidence, success, decoded_text, validation,
               last_exit, result, run_vars>>

StateInit ==
    /\ \E text \in InputTexts, max_iter \in 0..MaxIter :
           state = NewState(text, max_iter)
    /\ pc = "direct"
    /\ decoder_name = None
    /\ confidence = 0
    /\ success = FALSE
    /\ decoded_text = NoText
    /\ validation = NoVerdict
    /\ last_exit = "none"
    /\ result = NoResult
    /\ ret = NoCall
    /\ library = "any"
    /\ verbose = FALSE
    /\ previous = NoPrevious

\* state.record_decode(encoding_type, result, confidence)
CallRecordDecode ==
    /\ state.iteration_count < MaxCalls
    /\ \E d \in Decoders, t \in KnownOrNext(state.text_history) :
           state' = RecordDecode(state, d, t, FALLBACK_CONFIDENCE)
    /\ ret' = [fn |-> "record_decode"]
    /\ UNCHANGED loop_vars

\* state.current_text = text
AssignCurrentText ==
    /\ \E t \in KnownOrNext(state.text_history) :
           /\ t # state.current_text
           /\ state' = [state EXCEPT !.current_text = t]
    /\ ret' = [fn |-> "current_text="]
    /\ UNCHANGED loop_vars

\* state.is_loop_detected()
CallIsLoopDetected ==
    /\ ret' = [fn |-> "is_loop_detected", value |-> IsLoopDetected(state)]
    /\ UNCHANGED <<state, loop_vars>>

\* state.should_continue()
CallShouldContinue ==
    /\ state' = ShouldContinue(state).state
    /\ ret' = [fn |-> "should_continue", value |-> ShouldContinue(state).ret]
    /\ UNCHANGED loop_vars

\* state.is_complete = True; state.completion_reason = validation["reason"]
AssignComplete ==
    /\ ~state.is_complete
    /\ state' = [state EXCEPT !.is_complete = TRUE,
                              !.completion_reason = "Flag format detected"]
    /\ ret' = [fn |-> "is_complete="]
    /\ UNCHANGED loop_vars

StateNext ==
    \/ CallRecordDecode
    \/ AssignCurrentText
    \/ CallIsLoopDetected
    \/ CallShouldContinue
    \/ AssignComplete

StateSpec == StateInit /\ [][StateNext]_vars

\* a DecoderState built with any current_text and then changed by
\* record_decode alone
RecordInit ==
    /\ \E text \in InputTexts, max_iter \in 0..MaxIter :
           \E current \in KnownOrNext(<<text>>) :
               state = [NewState(text, max_iter) EXCEPT !.current_text = current]
    /\ pc = "direct"
    /\ decoder_name = None
    /\ confidence = 0
    /\ success = FALSE
    /\ decoded_text = NoText
    /\ validation = NoVerdict
    /\ last_exit = "none"
    /\ result = NoResult
    /\ ret = NoCall
    /\ library = "any"
    /\ verbose = FALSE
    /\ previous = NoPrevious

RecordNext ==
    \/ CallRecordDecode
    \/ CallIsLoopDetected

RecordSpec == RecordInit /\ [][RecordNext]_vars

\* ------------------------------------- validate_decoded_result, called directly
\* the empty string, next to the texts 1..NumTexts
Empty == 0
\* values on each side of, on, and far from the thresholds of the validators
BoundaryRatios == {0, 79, 80, 81, 94, 95, 96, 100}
BoundaryEntropies == {0, 44, 45, 46, 54, 55, 56, 80}

\* what analyze_encoding_characteristics can report about a text
AnalysesOf(text) ==
    IF text = Empty THEN {EmptyAnalysis}
    ELSE AnalysesOver(BoundaryRatios, BoundaryEntropies)

ValidatorInit ==
    /\ state = NewState(Empty, 0)
    /\ pc = "direct"
    /\ decoder_name = None
    /\ confidence = 0
    /\ success = FALSE
    /\ decoded_text = NoText
    /\ validation = NoVerdict
    /\ last_exit = "none"
    /\ result = NoResult
    /\ ret = NoCall
    /\ library = "any"
    /\ verbose = FALSE
    /\ previous = NoPrevious

\* validate_decoded_result(original, decoded), called once
CallValidateDecodedResult ==
    /\ ret = NoCall
    /\ \E original, decoded \in Texts \cup {Empty} :
         \E a \in AnalysesOf(decoded) :
           ret' = [fn |-> "validate_decoded_result",
                   original |-> original, decoded |-> decoded, analysis |-> a,
                   value |-> ValidateDecodedResult(original, decoded, a)]
    /\ UNCHANGED <<state, loop_vars>>

ValidatorNext == CallValidateDecodedResult

ValidatorSpec == ValidatorInit /\ [][ValidatorNext]_vars

\* ------------------------------ the functions of the library, called directly
\* confidences on each side of, and on, the minimum, and two high ones
ScoreValues ==
    {0, MIN_CONFIDENCE - 1, MIN_CONFIDENCE, MIN_CONFIDENCE + 1,
     CONFIDENCE_ROT13_ALPHABETIC, CONFIDENCE_HEX_EVEN_LENGTH}

\* the texts of at most n characters over an alphabet
TextsOver(alphabet, n) == UNION {[1..k -> alphabet] : k \in 0..n}

\* the ends of the two letter ranges, their neighbours outside, the letters
\* that rotate onto the ends, and a character beyond ASCII
Rot13Chars == {64, 65, 77, 78, 90, 91, 96, 97, 109, 110, 122, 123, 233}

\* plaintexts: a letter, a hex letter, a digit, a space, '%', '/', '~', and
\* characters of two, three and four UTF-8 bytes
PlainChars == {97, 70, 48, 32, 37, 47, 126, 233, 8364, 128512}

\* str.upper() on a text of hex digits
upper(text) ==
    [i \in 1..Len(text) |-> IF text[i] \in 97..122 THEN text[i] - 32 ELSE text[i]]

\* urllib.parse.quote(original): the UTF-8 bytes, each one outside the
\* letters, the digits and "_.-~/" written as '%' and two upper-case digits
quote(text) ==
    LET bytes == encode(text)
        safe == AsciiLetters \cup AsciiDigits \cup Chars("_.-~/")
        Q[i \in 0..Len(bytes)] ==
            IF i = 0 THEN <<>>
            ELSE IF bytes[i] \in safe THEN Q[i - 1] \o <<bytes[i]>>
            ELSE Q[i - 1] \o <<Ord("%")>> \o upper(hex(<<bytes[i]>>))
    IN Q[Len(bytes)]

\* the encoders the codec tests use; "HEX" is hex in upper case
Encoders == {"base64", "hex", "HEX", "rot13", "url"}

Encode(c, text) ==
    IF c = "base64" THEN Base64(text)
    ELSE IF c = "hex" THEN Hex(text)
    ELSE IF c = "HEX" THEN upper(Hex(text))
    ELSE IF c = "rot13" THEN decode_rot13(text).text
    ELSE quote(text)

\* characters of short texts given to try_all_decoders: '%', two digits
\* that are the hex of a letter, a letter of each case, a space
TryChars == Chars("%41aN ")

\* one character of each kind identify_charset tells apart: a hex letter,
\* another letter, a digit, a space, a Base64 sign, a printable sign
\* outside Base64, a control character, a character beyond ASCII
CharsetChars == {97, 122, 52, 32, 43, 33, 1, 233}

\* characters of the texts that are scored: '%', a hex letter, another
\* letter, a digit, '=', a space, a sign outside Base64
ScoreChars == Chars("%az4= !")

FunctionInit ==
    /\ state = NewState(<<>>, 0)
    /\ pc = "direct"
    /\ decoder_name = None
    /\ confidence = 0
    /\ success = FALSE
    /\ decoded_text = NoText
    /\ validation = NoVerdict
    /\ last_exit = "none"
    /\ result = NoResult
    /\ ret = NoCall
    /\ library = "source"
    /\ verbose = FALSE
    /\ previous = NoPrevious

\* agent._select_decoder(analysis, confidence_scores), called once
CallSelectDecoder ==
    /\ ret = NoCall
    /\ \E scores \in [Decoders -> ScoreValues] :
           ret' = [fn |-> "_select_decoder", scores |-> scores,
                   value |-> SelectDecoder(scores)]
    /\ UNCHANGED <<state, loop_vars>>

\* decode_rot13(x), called once
CallDecodeRot13 ==
    /\ ret = NoCall
    /\ \E x \in TextsOver(Rot13Chars, MaxChars) :
           ret' = [fn |-> "decode_rot13", x |-> x, value |-> decode_rot13(x)]
    /\ UNCHANGED <<state, loop_vars>>

\* decoded = decode_c(encode_c(original)), as the codec tests do it
CallRoundTrip ==
    /\ ret = NoCall
    /\ \E c \in Encoders, x \in TextsOver(PlainChars, MaxChars) :
           ret' = [fn |-> "round_trip", codec |-> c, x |-> x,
                   encoded |-> Encode(c, x),
                   value |-> Decode(IF c = "HEX" THEN "hex" ELSE c, Encode(c, x))]
    /\ UNCHANGED <<state, loop_vars>>

\* try_all_decoders(x), each codec computed on x
CallTryAllDecoders ==
    /\ ret = NoCall
    /\ \E x \in {y \in SourceInputs : Len(y) <= MaxTryLen} \cup TextsOver(TryChars, MaxChars) :
           ret' = [fn |-> "try_all_decoders", x |-> x,
                   value |-> TryAllDecoders(x, [d \in Decoders |-> Decode(d, x)])]
    /\ UNCHANGED <<state, loop_vars>>

\* identify_likely_encoding(analysis)
CallIdentifyLikelyEncoding ==
    /\ ret = NoCall
    /\ \E a \in ScoringAnalyses :
           ret' = [fn |-> "identify_likely_encoding", analysis |-> a,
                   value |-> IdentifyLikelyEncoding(a)]
    /\ UNCHANGED <<state, loop_vars>>

\* identify_charset(text)
CallIdentifyCharset ==
    /\ ret = NoCall
    /\ \E x \in TextsOver(CharsetChars, MaxLen) :
           ret' = [fn |-> "identify_charset", x |-> x, value |-> identify_charset(x)]
    /\ UNCHANGED <<state, loop_vars>>

\* decode_iteration, steps 1 and 2, on a text: analyze, score, select
CallScoreText ==
    /\ ret = NoCall
    /\ \E x \in TextsOver(ScoreChars, MaxLen) :
           LET scores == IdentifyLikelyEncoding(analyze_encoding_characteristics(x))
           IN ret' = [fn |-> "score_text", x |-> x,
                      charset |-> identify_charset(x), scores |-> scores,
                      value |-> SelectDecoder(scores)]
    /\ UNCHANGED <<state, loop_vars>>

FunctionNext ==
    \/ CallSelectDecoder
    \/ CallScoreText
    \/ CallIdentifyCharset
    \/ CallIdentifyLikelyEncoding
    \/ CallTryAllDecoders
    \/ CallRoundTrip
    \/ CallDecodeRot13

FunctionSpec == FunctionInit /\ [][FunctionNext]_vars

\* ------------------------------------------------------------------ claims
Returned == pc = "done"
IterationPcs == {"analyze", "apply", "fallback", "validate"}
Last(h) == h[Len(h)]
\* the last entry of the history occurs among the entries before it
RepeatsEarlier(h) == \E i \in 1..(Len(h) - 1) : h[i] = Last(h)

\* C1: every invocation of decode terminates: whatever the codecs and the
\* validators do, the loop stops and a Result is returned.
C1_Terminates == <>Returned

C1_Witness == Returned /\ result.iterations = MaxIter /\ ~result.complete

\* C2: iteration_count never exceeds max_iterations, so the Result has
\* iterations <= max_iterations and len(encoding_chain) <= max_iterations.
C2_WithinBudget ==
    /\ state.iteration_count <= state.max_iterations
    /\ Returned => /\ result.iterations <= state.max_iterations
                   /\ Len(result.encoding_chain) <= state.max_iterations

C2_Witness ==
    /\ Returned
    /\ state.max_iterations > 0
    /\ result.iterations = state.max_iterations
    /\ Len(result.encoding_chain) = state.max_iterations

\* C3: in every state of a run and in the Result, len(text_history) =
\* iteration_count + 1 and len(encoding_chain) = len(confidence_scores) =
\* iteration_count.
C3_Lengths ==
    /\ Len(state.text_history) = state.iteration_count + 1
    /\ Len(state.encoding_chain) = state.iteration_count
    /\ Len(state.confidence_scores) = state.iteration_count
    /\ Returned => /\ Len(result.history) = result.iterations + 1
                   /\ Len(result.encoding_chain) = result.iterations
                   /\ Len(result.confidence_scores) = result.iterations

C3_Witness == Returned /\ result.iterations >= 2 /\ Len(result.history) >= 3

\* C4 as stated: a run that is not complete when iteration_count reaches
\* max_iterations stops with reason "max_iterations_reached"; with
\* max_iterations = 0 it returns at once with nothing decoded.
C4_AsStated ==
    Returned /\ ~result.complete /\ result.iterations = state.max_iterations
        => result.reason = "max_iterations_reached"

\* C4 as amended: a run that is not complete when iteration_count reaches
\* max_iterations stops with complete = false and invokes no further decoder;
\* its reason is "max_iterations_reached", unless the decode that used up the
\* budget produced a text already in text_history, and then it is
\* "loop_detected".  With max_iterations = 0 it returns at once with
\* encoding_chain = [], history = [original_text], final_text = original_text
\* and reason "max_iterations_reached".
C4_BudgetStop ==
    /\ pc \in IterationPcs => state.iteration_count < state.max_iterations
    /\ Returned /\ ~result.complete /\ result.iterations = state.max_iterations
         => /\ result.reason =
                  IF result.iterations > 0 /\ validation.status = "PARTIAL"
                     /\ RepeatsEarlier(result.history)
                  THEN "loop_detected" ELSE "max_iterations_reached"
            /\ ~result.success
    /\ Returned /\ state.max_iterations = 0
         => /\ result.reason = "max_iterations_reached"
            /\ ~result.complete
            /\ result.encoding_chain = <<>>
            /\ result.history = <<result.original_text>>
            /\ result.final_text = result.original_text

C4_Witness ==
    /\ Returned
    /\ ~result.complete
    /\ result.iterations = state.max_iterations
    /\ result.iterations > 0
    /\ result.reason = "max_iterations_reached"

\* C5: when an iteration finds no usable decoder (no codec above the
\* threshold, or the selected decoder and the fallback both yield nothing),
\* the Result has reason "no_progress" and complete = false.
C5_NoProgressReason ==
    Returned /\ last_exit \in {"no_decoder", "all_failed"}
        => result.reason = "no_progress" /\ ~result.complete

\* C6: when the validator's verdict on an accepted decode is COMPLETE, the
\* decode is recorded, is_complete becomes true, no further iteration runs
\* and the Result has complete = true with the validator's reason, also when
\* the budget is used up or the decoded text repeats an earlier one.
C6_CompleteWins ==
    validation.status = "COMPLETE"
        => /\ pc \in {"to_dict", "done"}
           /\ state.is_complete
           /\ state.completion_reason = validation.reason
           /\ state.iteration_count >= 1
           /\ state.current_text = Last(state.text_history)
           /\ Returned => /\ result.complete
                          /\ result.success
                          /\ result.reason = validation.reason
                          /\ result.reason \notin {"max_iterations_reached",
                                                   "loop_detected"}

C6_Witness ==
    /\ Returned
    /\ validation.status = "COMPLETE"
    /\ result.iterations = state.max_iterations
    /\ RepeatsEarlier(result.history)
    /\ result.complete

\* C7: when the verdict is PARTIAL and the decoded text equals an earlier
\* entry of text_history, the run stops right after recording it, with reason
\* "loop_detected" and complete = false, so no iteration takes a repeated text
\* as its input; when no loop is detected the run goes on with the decoded
\* text as current_text.
C7_LoopStops ==
    /\ pc \in IterationPcs
         => \A i \in 1..(Len(state.text_history) - 1) :
                state.text_history[i] # state.current_text
    /\ validation.status = "PARTIAL" /\ RepeatsEarlier(state.text_history)
         => /\ pc \in {"to_dict", "done"}
            /\ state.completion_reason = "loop_detected"
            /\ ~state.is_complete
            /\ Returned => result.reason = "loop_detected" /\ ~result.complete
    /\ validation.status = "PARTIAL" /\ ~RepeatsEarlier(state.text_history)
         => /\ state.current_text = Last(state.text_history)
            /\ ~state.is_complete
            /\ \/ pc = "should_continue" /\ state.completion_reason = ""
               \/ /\ pc \in {"to_dict", "done"}
                  /\ state.completion_reason = "max_iterations_reached"
                  /\ state.iteration_count = state.max_iterations

C7_Witness ==
    /\ Returned
    /\ validation.status = "PARTIAL"
    /\ RepeatsEarlier(result.history)
    /\ result.reason = "loop_detected"
    /\ result.final_text = result.original_text
    /\ ~result.complete

\* C9: terminal states are absorbing: once a run has stopped, no decoder is
\* applied and nothing is recorded, so is_complete, encoding_chain,
\* text_history, confidence_scores and iteration_count keep their values
\* until the Result is produced; once is_complete is true, should_continue
\* returns false and leaves completion_reason unchanged.
Stopped ==
    \/ state.is_complete
    \/ state.completion_reason # ""
    \/ pc \in {"to_dict", "done"}

C9_Absorbing ==
    /\ [](state.is_complete => ShouldContinue(state) = [ret |-> FALSE, state |-> state])
    /\ [][Stopped => /\ Stopped'
                     /\ pc' \notin IterationPcs
                     /\ state' = state]_vars

C9_Witness ==
    /\ Returned
    /\ state.is_complete
    /\ state.iteration_count < state.max_iterations
    /\ result.iterations = state.iteration_count

\* C10: decode never raises to its caller: whatever fails inside an
\* iteration, decode returns a Result with all of its keys.
ResultKeys ==
    {"original_text", "final_text", "encoding_chain", "iterations", "complete",
     "reason", "history", "confidence_scores", "attempted_decodings", "success"}

Raises == pc \in IterationPcs /\ last_exit' = "raised"

C11_ErrorKeepsHistory ==
    /\ [](last_exit = "raised"
            => /\ pc \in {"to_dict", "done"}
               /\ state.completion_reason = "error: unexpected"
               /\ ~state.is_complete
               /\ Returned => /\ result.reason = "error: unexpected"
                              /\ ~result.complete
                              /\ ~result.success
                              /\ result.history = state.text_history
                              /\ result.encoding_chain = state.encoding_chain
                              /\ result.confidence_scores = state.confidence_scores
                              /\ result.iterations = Len(result.encoding_chain))
    /\ [][Raises => /\ pc' = "to_dict"
                    /\ state'.text_history = state.text_history
                    /\ state'.encoding_chain = state.encoding_chain
                    /\ state'.confidence_scores = state.confidence_scores
                    /\ state'.iteration_count = state.iteration_count
                    /\ state'.current_text = state.current_text]_vars

C11_Witness ==
    /\ Returned
    /\ last_exit = "raised"
    /\ result.iterations >= 1
    /\ Len(result.history) = result.iterations + 1
    /\ result.reason = "error: unexpected"

\* C12: a DecoderError of the selected decoder is never propagated and never
\* ends the run by itself: the state is left unchanged and the try-all
\* fallback runs on the same current_text; the iteration goes on with the
\* fallback's result when there is one, and ends without a decode otherwise.
SelectedDecoderFails == pc = "apply" /\ last_exit' # "raised" /\ ~success'
FallbackRuns == pc = "fallback" /\ last_exit' # "raised"

C12_DecoderErrorRecovered ==
    /\ [](pc # "raised" /\ (pc = "validate" => success))
    /\ [][SelectedDecoderFails
            => /\ pc' = "fallback"
               /\ state' = state
               /\ decoder_name' = decoder_name]_vars
    /\ [][FallbackRuns
            => /\ state' = state
               /\ \/ /\ pc' = "validate"
                     /\ success'
                     /\ decoder_name' \in Decoders
                     /\ decoded_text' \in Texts
                     /\ decoded_text' # state.current_text
                     /\ confidence' = FALLBACK_CONFIDENCE
                  \/ /\ pc' = "to_dict"
                     /\ last_exit' = "all_failed"]_vars

\* the selected decoder raised DecoderError in the second iteration and the
\* run is about to try the alternatives, its state as the first decode left it
C12_Witness ==
    /\ pc = "fallback"
    /\ ~success
    /\ decoder_name \in Decoders
    /\ state.iteration_count = 1
    /\ state.completion_reason = ""

\* C13: two runs of decode with the same input text, the same max_iterations
\* and the same decoder and validator tables produce identical Results, the
\* order of the attempted_decodings list included: the Result is determined
\* by the session state the run ends in.
PossibleResults(s) == {DecodeResult(s, o) : o \in SetOrders(s.attempted_decodings)}

C13_Deterministic == pc = "to_dict" => Cardinality(PossibleResults(state)) = 1

\* C15: in every Result decode returns, on every exit path, the error path
\* included, success equals complete.
C15_SuccessIsComplete ==
    Returned => /\ result.success = result.complete
                /\ result.success = state.is_complete

C15_Witness ==
    /\ Returned
    /\ last_exit = "raised"
    /\ result.iterations >= 1
    /\ ~result.success
    /\ ~result.complete

\* C19: an iteration that ends without an accepted decode (no codec above the
\* threshold, or the selected decoder and the fallback both yield nothing)
\* changes nothing in the session state: encoding_chain, text_history,
\* confidence_scores, attempted_decodings, iteration_count, current_text and
\* is_complete are as at the start of the iteration; on the first iteration
\* the Result has iterations = 0, encoding_chain = [], final_text =
\* original_text and complete = false.
SessionFields(s) ==
    <<s.encoding_chain, s.text_history, s.confidence_scores, s.attempted_decodings,
      s.iteration_count, s.current_text, s.is_complete>>

EndsWithoutDecode ==
    pc \in {"analyze", "fallback"} /\ last_exit' \in {"no_decoder", "all_failed"}

C19_NoDecodeNoChange ==
    /\ [][(pc \in {"analyze", "apply", "fallback"} /\ last_exit' # "raised")
            => (SessionFields(state)' = SessionFields(state))]_vars
    /\ [][EndsWithoutDecode => pc' = "to_dict" /\ ~state'.is_complete]_vars
    /\ [](Returned /\ last_exit \in {"no_decoder", "all_failed"}
            => /\ ~result.complete
               /\ result.final_text = state.current_text
               /\ result.history = state.text_history
               /\ result.iterations = Len(result.encoding_chain)
               /\ result.iterations = 0
                    => /\ result.encoding_chain = <<>>
                       /\ result.final_text = result.original_text
                       /\ result.history = <<result.original_text>>
                       /\ result.confidence_scores = <<>>
                       /\ result.attempted_decodings = <<>>)

C19_Witness ==
    /\ Returned
    /\ last_exit = "all_failed"
    /\ result.iterations = 0
    /\ result.encoding_chain = <<>>
    /\ result.final_text = result.original_text
    /\ ~result.complete

\* C16: is_loop_detected returns true if (a) current_text equals an entry of
\* text_history other than the last one, or (b) the entry before the last
\* equals current_text, or (c) text_history has at least 4 entries with
\* history[-1] = history[-3] and history[-2] = history[-4].  For distinct A
\* and B the history [A, B, A] built by record_decode is reported as a loop
\* although it has fewer than 4 entries, and so is [A, B, A, B].
ExactRepeat(s) == \E i \in 1..(Len(s.text_history) - 1) : s.text_history[i] = s.current_text
NoOpRepeat(s) ==
    Len(s.text_history) > 1 /\ s.text_history[Len(s.text_history) - 1] = s.current_text
Oscillation(s) ==
    LET h == s.text_history
        n == Len(h)
    IN n >= 4 /\ h[n] = h[n - 2] /\ h[n - 1] = h[n - 3]
BuiltByRecordDecode(s) == s.current_text = Last(s.text_history)

C16_LoopRules ==
    ret.fn = "is_loop_detected"
        => /\ ExactRepeat(state) \/ NoOpRepeat(state) \/ Oscillation(state) => ret.value
           /\ \A A, B \in Texts :
                A # B /\ BuiltByRecordDecode(state)
                    /\ state.text_history \in {<<A, B, A>>, <<A, B, A, B>>}
                  => ret.value

C16_Witness ==
    /\ ret.fn = "is_loop_detected"
    /\ ret.value
    /\ state.text_history = <<1, 2, 1>>
    /\ state.current_text = 1
    /\ ~Oscillation(state)

\* C20: validate_decoded_result is total and first-match-wins over the fixed
\* priority list: for every pair (original, decoded), empty strings included,
\* it returns the outcome of the first rule that applies among no-change
\* (FAILED, 0.0), marker (COMPLETE, 0.99), URL (COMPLETE, 0.85), hash
\* (COMPLETE, 0.80), natural language [printable_ratio > 0.95 and entropy <
\* 4.5] (COMPLETE, 0.90), still encoded [printable_ratio < 0.80 or entropy >
\* 5.5] (PARTIAL, 0.60), improved [printable_ratio > 0.80] (PARTIAL, 0.50),
\* default (PARTIAL, 0.45), and never returns no result.
Outcome(status, conf) == [status |-> status, confidence |-> conf]

PriorityList(original, decoded, a) ==
    IF original = decoded THEN Outcome("FAILED", 0)
    ELSE IF a.contains_flag THEN Outcome("COMPLETE", 99)
    ELSE IF a.contains_url THEN Outcome("COMPLETE", 85)
    ELSE IF a.hash_type \in HashTypes THEN Outcome("COMPLETE", 80)
    ELSE IF a.printable_ratio > 95 /\ a.entropy < 45 THEN Outcome("COMPLETE", 90)
    ELSE IF a.printable_ratio < 80 \/ a.entropy > 55 THEN Outcome("PARTIAL", 60)
    ELSE IF a.printable_ratio > 80 THEN Outcome("PARTIAL", 50)
    ELSE Outcome("PARTIAL", 45)

C20_FirstMatchWins ==
    ret.fn = "validate_decoded_result"
        => /\ ret.value # NoVerdict
           /\ ret.value.status \in {"FAILED", "COMPLETE", "PARTIAL"}
           /\ Outcome(ret.value.status, ret.value.confidence)
                = PriorityList(ret.original, ret.decoded, ret.analysis)

\* a text that holds a marker and a URL is judged by the marker rule
C20_Witness ==
    /\ ret.fn = "validate_decoded_result"
    /\ ret.original # ret.decoded
    /\ ret.analysis.contains_flag
    /\ ret.analysis.contains_url
    /\ ret.value.status = "COMPLETE"
    /\ ret.value.confidence = 99

\* what a decode ended with: whether it returned or raised, and the session
Ended == pc \in {"done", "raised"}

\* C14: the verbose flag does not influence control flow or results: two
\* decodes of the same text with the same max_iterations, one on a verbose
\* agent and one on a quiet agent, end the same way, with the same sequence
\* of decoder applications and the same Result.
C14_VerboseNoInfluence ==
    previous # NoPrevious /\ Ended
        => /\ pc = previous.pc
           /\ state.encoding_chain = previous.state.encoding_chain
           /\ state.text_history = previous.state.text_history
           /\ result = previous.result

\* Base64(Hex("CTF{secret}"))
Scenario2Input == Base64(Hex(Str("CTF{secret}")))

\* C17: on Base64(Hex("CTF{secret}")), with room for two iterations, decode
\* ends within 2 iterations with encoding_chain = ["base64", "hex"], final
\* text "CTF{secret}" and complete = true.
C17_NestedPeeled ==
    pc = "done" /\ state.original_text = Scenario2Input /\ state.max_iterations >= 2
        => /\ result.iterations <= 2
           /\ result.encoding_chain = <<"base64", "hex">>
           /\ result.final_text = Str("CTF{secret}")
           /\ result.complete

\* C18: on the Base64 encoding of a text that holds a marker, with room for
\* one iteration, decode returns complete = true, iterations = 1,
\* encoding_chain = ["base64"] and the text with its marker as final text.
C18_SingleLayerMarker ==
    \A m \in MarkerTexts :
        pc = "done" /\ state.original_text = Base64(m) /\ state.max_iterations >= 1
            => /\ result.complete
               /\ result.iterations = 1
               /\ result.encoding_chain = <<"base64">>
               /\ result.final_text = m
               /\ contains_flag(result.final_text)

C18_Witness ==
    /\ pc = "done"
    /\ state.original_text = Base64(Str("flag{abc}"))
    /\ result.complete
    /\ result.iterations = 1
    /\ result.encoding_chain = <<"base64">>
    /\ result.final_text = Str("flag{abc}")
    /\ result.reason = "Flag format detected"

\* C21: validate_decoded_result(x, x) returns FAILED with confidence 0.0 for
\* every text x, whatever the characterizer reports about x (a marker, a URL,
\* the shape of a hash, natural language).
C21_NoChangeFirst ==
    ret.fn = "validate_decoded_result" /\ ret.original = ret.decoded
        => /\ ret.value.status = "FAILED"
           /\ ret.value.confidence = 0
           /\ ret.value.reason = "No change after decoding"

C21_Witness ==
    /\ ret.fn = "validate_decoded_result"
    /\ ret.original = ret.decoded
    /\ ret.original # Empty
    /\ ret.analysis.contains_flag
    /\ ret.analysis.contains_url
    /\ ret.analysis.printable_ratio = 100
    /\ ret.value.status = "FAILED"

\* the place of a codec in the table
Place(d) == CHOOSE i \in 1..Len(DecoderOrder) : DecoderOrder[i] = d

\* C22: _select_decoder returns the codec with the highest confidence, the
\* first of them in the order base64, hex, rot13, url when several share it,
\* together with that confidence; it returns (None, 0.0) when the highest
\* confidence is not above 0.3, and never a codec whose confidence is not.
C22_HighestFirstInOrder ==
    ret.fn = "_select_decoder"
        => LET sc == ret.scores
               v == ret.value
               best == CHOOSE x \in {sc[d] : d \in Decoders} :
                           \A d \in Decoders : sc[d] <= x
           IN IF best > MIN_CONFIDENCE
              THEN /\ v.name \in Decoders
                   /\ sc[v.name] = best
                   /\ v.confidence = best
                   /\ \A d \in Decoders : sc[d] = best => Place(v.name) <= Place(d)
              ELSE v = [name |-> None, confidence |-> 0]

\* hex and url share the highest confidence
C22_Witness ==
    /\ ret.fn = "_select_decoder"
    /\ ret.scores["base64"] = MIN_CONFIDENCE + 1
    /\ ret.scores["hex"] = CONFIDENCE_HEX_EVEN_LENGTH
    /\ ret.scores["url"] = CONFIDENCE_HEX_EVEN_LENGTH
    /\ ret.value = [name |-> "hex", confidence |-> CONFIDENCE_HEX_EVEN_LENGTH]

\* C23: decode_rot13 never fails, rotates each letter by 13 within its case
\* and leaves every other character as it is, and applied to its own output
\* it gives back the text it was given.
C23_Rot13Involution ==
    ret.fn = "decode_rot13"
        => /\ ret.value.kind = "ok"
           /\ Len(ret.value.text) = Len(ret.x)
           /\ \A i \in 1..Len(ret.x) :
                 LET c == ret.x[i]
                     r == ret.value.text[i]
                 IN IF c \in 97..109 \/ c \in 65..77 THEN r = c + 13
                    ELSE IF c \in 110..122 \/ c \in 78..90 THEN r = c - 13
                    ELSE r = c
           /\ decode_rot13(ret.value.text) = [kind |-> "ok", text |-> ret.x]

\* "Az" gives "Nm"
C23_Witness ==
    /\ ret.fn = "decode_rot13"
    /\ ret.x = <<65, 122>>
    /\ ret.value.text = <<78, 109>>
    /\ decode_rot13(ret.value.text).text = ret.x

\* C24: decoding what a codec encoded gives back the plaintext, for base64,
\* hex in lower and in upper case, rot13, and for url whenever quoting
\* changed the plaintext.
C24_RoundTrip ==
    (ret.fn = "round_trip" /\ (ret.codec = "url" => ret.encoded # ret.x))
        => ret.value = [kind |-> "ok", text |-> ret.x]

\* the euro sign and a space: base64 "4oKsIA==", hex "E282AC20" in upper
\* case, url "%E2%82%AC%20"
C24_Witness ==
    /\ ret.fn = "round_trip"
    /\ ret.x = <<8364, 32>>
    /\ ret.codec = "HEX"
    /\ ret.encoded = Str("E282AC20")
    /\ ret.value.text = ret.x
    /\ quote(ret.x) = Str("%E2%82%AC%20")
    /\ Base64(ret.x) = Str("4oKsIA==")

\* C25: should_continue tests is_complete first, then the iteration budget,
\* then the loop: on a complete state it returns false and writes nothing;
\* otherwise at or over the budget it returns false with reason
\* "max_iterations_reached", a detectable loop notwithstanding; otherwise on
\* a loop it returns false with reason "loop_detected"; otherwise it returns
\* true and writes nothing. Only completion_reason is ever written.
C25_ShouldContinueOrder ==
    [][ret'.fn = "should_continue" =>
          /\ state' = [state EXCEPT !.completion_reason = state'.completion_reason]
          /\ IF state.is_complete
             THEN ~ret'.value /\ state' = state
             ELSE IF state.iteration_count >= state.max_iterations
             THEN ~ret'.value /\ state'.completion_reason = "max_iterations_reached"
             ELSE IF IsLoopDetected(state)
             THEN ~ret'.value /\ state'.completion_reason = "loop_detected"
             ELSE ret'.value /\ state' = state]_vars

\* the budget is used up and the text has come back to an earlier one: the
\* budget gives the reason
C25_Witness ==
    /\ ret.fn = "should_continue"
    /\ ~ret.value
    /\ ~state.is_complete
    /\ state.iteration_count = state.max_iterations
    /\ IsLoopDetected(state)
    /\ state.completion_reason = "max_iterations_reached"

\* the codecs that, tried on text, succeed with something other than text
Yields(text) ==
    {i \in 1..Len(DecoderOrder) :
        /\ Decode(DecoderOrder[i], text).kind = "ok"
        /\ Decode(DecoderOrder[i], text).text # text}

\* C26: when the selected decoder failed or changed nothing and some codec
\* of the table yields a result, the iteration goes on with the first such
\* codec in the order base64, hex, rot13, url: its name, which is not the
\* selected one, its decoded text and the confidence 0.7; and these three
\* are what record_decode is then given.
C26_FirstFallbackAccepted ==
    /\ [][(pc = "fallback" /\ Yields(state.current_text) # {}) =>
             LET first == CHOOSE i \in Yields(state.current_text) :
                              \A j \in Yields(state.current_text) : i <= j
             IN /\ pc' = "validate"
                /\ decoder_name' = DecoderOrder[first]
                /\ decoder_name' # decoder_name
                /\ decoded_text' = Decode(DecoderOrder[first], state.current_text).text
                /\ confidence' = FALLBACK_CONFIDENCE
                /\ state' = state]_vars
    /\ [][pc = "validate" =>
             /\ state'.encoding_chain = Append(state.encoding_chain, decoder_name)
             /\ state'.text_history = Append(state.text_history, decoded_text)
             /\ state'.confidence_scores = Append(state.confidence_scores, confidence)]_vars

\* "%zzzz": url is selected and fails, base64 and rot13 both yield a result,
\* and the base64 result is the one recorded
C26_Witness ==
    /\ state.original_text = Str("%zzzz")
    /\ Yields(state.original_text) = {1, 3}
    /\ Decode("url", state.original_text) = DecoderError
    /\ state.encoding_chain = <<"base64">>
    /\ state.text_history = <<Str("%zzzz"), Str("cf3cf3")>>
    /\ state.confidence_scores = <<FALLBACK_CONFIDENCE>>

\* C27: try_all_decoders(x) returns a list of (name, output) pairs: every
\* pair is a codec of the table with what it made of x, which is not x;
\* every codec that succeeds with something other than x has a pair; the
\* pairs stand in the order base64, hex, rot13, url, each codec at most
\* once. A codec that raises DecoderError or gives x back has no pair, and
\* the call returns its list whatever the codecs did.
C27_TryAllDecoders ==
    ret.fn = "try_all_decoders" =>
        LET results == ret.value
        IN /\ \A i \in 1..Len(results) :
                 /\ results[i][1] \in Decoders
                 /\ Decode(results[i][1], ret.x) = [kind |-> "ok", text |-> results[i][2]]
                 /\ results[i][2] # ret.x
           /\ \A d \in Decoders :
                 (Decode(d, ret.x).kind = "ok" /\ Decode(d, ret.x).text # ret.x)
                     => \E i \in 1..Len(results) : results[i][1] = d
           /\ \A i, j \in 1..Len(results) :
                 i < j => Place(results[i][1]) < Place(results[j][1])

\* "%41%42": hex raises, rot13 gives the text back, base64 and url yield
C27_Witness ==
    /\ ret.fn = "try_all_decoders"
    /\ ret.x = Str("%41%42")
    /\ Decode("hex", ret.x) = DecoderError
    /\ Decode("rot13", ret.x) = [kind |-> "ok", text |-> ret.x]
    /\ ret.value = << <<"base64", Str("e35e36")>>, <<"url", Str("AB")>> >>

\* C28: identify_likely_encoding gives each of base64, hex, rot13, url a
\* score between 0 and 1 by the table: base64 0.95 on charset base64 with
\* padding, 0.85 on charset base64 without, 0.6 on charset printable with a
\* length divisible by 4, else 0; hex 0.95 on charset hex with even length,
\* 0.90 with odd length, else 0; rot13 0.70 on charset alphabetic, else 0;
\* url 0.90 when the text holds '%', else 0.
C28_ScoreTable ==
    ret.fn = "identify_likely_encoding" =>
        LET a == ret.analysis
            scores == ret.value
        IN /\ DOMAIN scores = {"base64", "hex", "rot13", "url"}
           /\ \A d \in DOMAIN scores : scores[d] \in 0..100
           /\ scores["base64"] =
                 IF a.charset = "base64" /\ a.padding THEN 95
                 ELSE IF a.charset = "base64" /\ ~a.padding THEN 85
                 ELSE IF a.charset = "printable" /\ a.length % 4 = 0 THEN 60
                 ELSE 0
           /\ scores["hex"] =
                 IF a.charset = "hex" /\ a.length % 2 = 0 THEN 95
                 ELSE IF a.charset = "hex" /\ a.length % 2 = 1 THEN 90
                 ELSE 0
           /\ scores["rot13"] = 70 <=> a.charset = "alphabetic"
           /\ scores["rot13"] \in {0, 70}
           /\ scores["url"] = 90 <=> a.has_percent
           /\ scores["url"] \in {0, 90}

\* a padded Base64 text of four characters scores 0.95 for base64 and 0 for
\* the others
C28_Witness ==
    /\ ret.fn = "identify_likely_encoding"
    /\ ret.analysis = [charset |-> "base64", padding |-> TRUE, length |-> 4,
                       has_percent |-> FALSE]
    /\ ret.value = [d \in Decoders |-> IF d = "base64" THEN 95 ELSE 0]

\* C29: identify_charset gives every text exactly one of empty, hex, base64,
\* alphabetic, printable, binary, the first that applies: empty for the
\* empty text; hex when every character other than a space is a hex digit
\* (so a text of hex digits is hex and not base64); base64 when every
\* character is a letter, a digit, '+', '/' or '='; alphabetic when every
\* character is printable and more than 70% of them are letters; printable
\* when every character is printable; binary otherwise.
C29_CharsetPriority ==
    ret.fn = "identify_charset" =>
        LET x == ret.x
            n == Len(x)
            Every(S) == \A i \in 1..n : x[i] \in S
            letters == Cardinality({i \in 1..n : x[i] \in 65..90 \cup 97..122})
            hexdigits == 48..57 \cup 65..70 \cup 97..102
            base64signs == 48..57 \cup 65..90 \cup 97..122 \cup {43, 47, 61}
            printable == 32..126 \cup 9..13
            is == [c \in {"empty", "hex", "base64", "alphabetic", "printable", "binary"} |->
                     CASE c = "empty" -> n = 0
                       [] c = "hex" -> Every(hexdigits \cup {32})
                       [] c = "base64" -> Every(base64signs)
                       [] c = "alphabetic" -> Every(printable) /\ 100 * letters > 70 * n
                       [] c = "printable" -> Every(printable)
                       [] c = "binary" -> TRUE]
            order == <<"empty", "hex", "base64", "alphabetic", "printable", "binary">>
        IN \E k \in 1..Len(order) :
              /\ ret.value = order[k]
              /\ is[order[k]]
              /\ \A j \in 1..(k - 1) : ~is[order[j]]

\* "a4 4": hex digits and a space, so hex although "a4" and "4" are made of
\* Base64 characters
C29_Witness ==
    /\ ret.fn = "identify_charset"
    /\ ret.x = Str("a4 4")
    /\ ret.value = "hex"

\* C30: a new DecoderState has text_history = [original_text]; the first
\* entry of text_history is original_text ever after and entries are only
\* added at the end; record_decode(codec, result, confidence) adds one entry
\* at the end of encoding_chain, text_history and confidence_scores, adds 1
\* to iteration_count, makes result the current_text, adds (the entry that
\* was last in text_history, codec) to attempted_decodings, and leaves
\* original_text, max_iterations, is_complete, completion_reason and the
\* entries already in the lists as they were.
C30_RecordDecodeEffects ==
    /\ [](/\ ret = NoCall => state.text_history = <<state.original_text>>
          /\ state.text_history[1] = state.original_text)
    /\ [][SubSeq(state'.text_history, 1, Len(state.text_history)) = state.text_history]_vars
    /\ [][ret'.fn = "record_decode" =>
             /\ Len(state'.encoding_chain) = Len(state.encoding_chain) + 1
             /\ Len(state'.text_history) = Len(state.text_history) + 1
             /\ Len(state'.confidence_scores) = Len(state.confidence_scores) + 1
             /\ SubSeq(state'.encoding_chain, 1, Len(state.encoding_chain)) = state.encoding_chain
             /\ SubSeq(state'.confidence_scores, 1, Len(state.confidence_scores))
                    = state.confidence_scores
             /\ state'.iteration_count = state.iteration_count + 1
             /\ state'.current_text = Last(state'.text_history)
             /\ state'.attempted_decodings = state.attempted_decodings
                    \cup {<<Last(state.text_history), Last(state'.encoding_chain)>>}
             /\ state'.original_text = state.original_text
             /\ state'.max_iterations = state.max_iterations
             /\ state'.is_complete = state.is_complete
             /\ state'.completion_reason = state.completion_reason]_vars

\* two decodes recorded, the second after current_text had been given a
\* text that is not the last entry of the history
C30_Witness ==
    /\ ret.fn = "record_decode"
    /\ state.iteration_count = 2
    /\ Len(state.text_history) = 3
    /\ state.text_history[1] = state.original_text
    /\ state.current_text = state.text_history[3]
    /\ state.encoding_chain = <<"hex", "rot13">>
    /\ state.attempted_decodings = {<<state.text_history[1], "hex">>,
                                    <<state.text_history[2], "rot13">>}
    /\ state.is_complete
    /\ state.completion_reason = "Flag format detected"

\* C31: inside decode the validator is given a decoded text other than
\* current_text (an unchanged primary result has been replaced by a fallback
\* result, and fallback results differ from the input), so its verdict is
\* never FAILED and the FAILED branch of step 5, which alone sets
\* "no_progress", is never taken.
C31_ValidatorNeverFailed ==
    /\ pc = "validate" => decoded_text # state.current_text
    /\ validation.status # "FAILED"
    /\ last_exit # "failed"
    /\ state.completion_reason # "no_progress"

\* the validator has judged a text that the fallback produced
C31_Witness ==
    /\ validation.status \in {"COMPLETE", "PARTIAL"}
    /\ last_exit \in {"complete", "continue", "loop"}
    /\ Last(state.confidence_scores) = FALLBACK_CONFIDENCE
    /\ Last(state.encoding_chain) # "rot13"
    /\ Last(state.text_history) # state.text_history[Len(state.text_history) - 1]

\* a text of hex digits and nothing else, at least one
HexOnly(text) ==
    /\ Len(text) > 0
    /\ \A i \in 1..Len(text) : text[i] \in 48..57 \cup 65..70 \cup 97..102

C33_CurrentIsLastOfHistory ==
    /\ state.current_text = Last(state.text_history)
    /\ pc = "done" => result.final_text = Last(result.history)

\* a Result with reason "loop_detected": its last history entry repeats an
\* earlier one and is the final text
C33_Witness ==
    /\ pc = "done"
    /\ result.reason = "loop_detected"
    /\ result.final_text = Last(result.history)
    /\ \E i \in 1..(Len(result.history) - 1) : result.history[i] = result.final_text

\* no text twice in a sequence
NoRepeat(h) == \A i, j \in 1..Len(h) : i < j => h[i] # h[j]

C35_LoopOnlyAfterRecord ==
    /\ [](pc = "should_continue" => ~IsLoopDetected(state))
    /\ [][pc = "should_continue" => state'.completion_reason # "loop_detected"]_vars
    /\ [](state.completion_reason = "loop_detected"
             => last_exit = "loop" /\ state.iteration_count >= 2)
    /\ [](pc = "done" /\ result.reason = "loop_detected" => result.iterations >= 2)

\* a Result with reason "loop_detected" after exactly two iterations
C35_Witness ==
    /\ pc = "done"
    /\ result.reason = "loop_detected"
    /\ result.iterations = 2
    /\ last_exit = "loop"

\* C36: a COMPLETE verdict goes before the loop test: when the text a decode
\* produced equals an earlier entry of the history and the validator judges
\* it COMPLETE, the Result is complete with the validator's reason, not
\* "loop_detected"; and the reasons "loop_detected" and
\* "max_iterations_reached" only ever come with complete = false.
C36_CompleteBeforeLoop ==
    /\ (Returned /\ validation.status = "COMPLETE" /\ RepeatsEarlier(result.history))
          => /\ result.complete
             /\ result.reason = validation.reason
             /\ result.reason # "loop_detected"
             /\ last_exit = "complete"
    /\ state.completion_reason \in {"loop_detected", "max_iterations_reached"}
          => ~state.is_complete
    /\ (Returned /\ result.reason \in {"loop_detected", "max_iterations_reached"})
          => ~result.complete /\ ~result.success

\* the second decode led back to the input, which the validator judged
\* COMPLETE
C36_Witness ==
    /\ Returned
    /\ validation.status = "COMPLETE"
    /\ last_exit = "complete"
    /\ Len(result.history) = 3
    /\ result.history[3] = result.history[1]
    /\ result.complete
    /\ result.reason = validation.reason

\* C37: on a DecoderState changed by record_decode alone, is_loop_detected
\* is true exactly when current_text occurs among the entries of
\* text_history before the last: the rule on the entry before the last and
\* the rule on the period-2 pattern hold only where the rule on an exact
\* repeat holds, and a history without a repeat is never a loop.
C37_LoopIsExactRepeat ==
    LET h == state.text_history
        n == Len(h)
        exact == \E i \in 1..(n - 1) : h[i] = state.current_text
        noop == n > 1 /\ h[n - 1] = state.current_text
        oscillation == n >= 4 /\ h[n] = h[n - 2] /\ h[n - 1] = h[n - 3]
    IN /\ IsLoopDetected(state) = exact
       /\ noop => exact
       /\ oscillation => exact
       /\ NoRepeat(h) => ~IsLoopDetected(state)
       /\ ret.fn = "is_loop_detected" => ret.value = exact

\* A, B, A, B: the period-2 pattern, and the last text is an earlier one
C37_Witness ==
    /\ ret.fn = "is_loop_detected"
    /\ ret.value
    /\ Len(state.text_history) = 4
    /\ state.text_history[4] = state.text_history[2]
    /\ state.text_history[3] = state.text_history[1]
    /\ state.text_history[1] # state.text_history[2]
    /\ state.current_text = state.text_history[4]

\* C38: the scores identify_likely_encoding gives a text never hold the same
\* positive confidence twice (a text with '%' has neither charset hex nor
\* charset base64), so a selected decoder has a confidence strictly above
\* that of every other codec, and the order base64, hex, rot13, url decides
\* nothing.
C38_NoTies ==
    ret.fn = "score_text" =>
        /\ (\E i \in 1..Len(ret.x) : ret.x[i] = 37) => ret.charset \notin {"hex", "base64"}
        /\ \A d, e \in Decoders :
              (d # e /\ ret.scores[d] > 0) => ret.scores[d] # ret.scores[e]
        /\ ret.value.name # None =>
              \A d \in Decoders \ {ret.value.name} :
                  ret.scores[d] < ret.scores[ret.value.name]

\* "%zzz": alphabetic with '%', length 4: rot13 0.70 and url 0.90 both
\* clear the minimum, url is selected
C38_Witness ==
    /\ ret.fn = "score_text"
    /\ ret.x = Str("%zzz")
    /\ ret.charset = "alphabetic"
    /\ ret.scores = [d \in Decoders |-> IF d = "rot13" THEN 70
                                        ELSE IF d = "url" THEN 90 ELSE 0]
    /\ ret.value = [name |-> "url", confidence |-> 90]

\* the classifier's confidence for a codec on a text
ScoreOf(text, d) == IdentifyLikelyEncoding(analyze_encoding_characteristics(text))[d]

\* C39: every entry of confidence_scores is the classifier's score, on the
\* text that was decoded, of the codec that decoded it, or the fallback
\* score: one of 0.6, 0.7, 0.85, 0.90, 0.95, above the minimum of 0.3; what
\* record_decode is given is the confidence of the selection or of the
\* fallback, whatever confidence the validator reports.
C39_RecordedConfidence ==
    /\ [](\A i \in 1..Len(state.confidence_scores) :
             LET c == state.confidence_scores[i]
             IN /\ c \in {60, 70, 85, 90, 95}
                /\ c > MIN_CONFIDENCE
                /\ \/ c = ScoreOf(state.text_history[i], state.encoding_chain[i])
                   \/ c = FALLBACK_CONFIDENCE)
    /\ [][pc = "validate" =>
             /\ Last(state'.confidence_scores) = confidence
             /\ Len(state'.confidence_scores) = Len(state.confidence_scores) + 1]_vars

\* the validator found a marker (0.99) in what base64, selected at 0.95 or
\* 0.85, had decoded: the selection's confidence is what was recorded
C39_Witness ==
    /\ state.is_complete
    /\ validation.confidence = CONFIDENCE_FLAG_DETECTED
    /\ Last(state.encoding_chain) = "base64"
    /\ Last(state.confidence_scores) \in {85, 95}
    /\ Last(state.confidence_scores) =
           ScoreOf(state.text_history[Len(state.text_history) - 1], "base64")

====
